---- MODULE Spec2Model ----
(***************************************************************************)
(* Stream segmentation and aggregation core of the Translator scripts.     *)
(*                                                                         *)
(* Text is modelled as a sequence of one-character strings, so that the    *)
(* regular expressions and string methods of the Python source can be      *)
(* computed character by character.                                        *)
(*                                                                         *)
(*   Spec     the polling loop of ocr_to_vocab.main                        *)
(*   SpecSim  word_clean.calculate_similarity applied to two texts         *)
(*   SpecDedup    word_clean.remove_duplicates over the files of a run     *)
(*   SpecClean    word_clean.clean_incomplete_sentences applied to a text  *)
(*   SpecResolve  the translation resolvers: translate_words of            *)
(*                word_translate.py; get_first_translation,                *)
(*                translate_sentence and preserve_case of ocr_to_vocab.py  *)
(*   SpecFreq     word_frequency.analyze_word_frequency over the runs of   *)
(*                word_frequency.main                                      *)
(*   SpecTrain    a session of word_vocabulary_trainer.py                  *)
(*   SpecSession  ocr_to_vocab.main with the exceptions that leave the     *)
(*                loop and the handler of KeyboardInterrupt                *)
(*   SpecStartup  ocr_to_vocab.main from the prompt for the region on      *)
(*   SpecTranslate  translate_words with its SIGINT handler, run to its    *)
(*                end                                                      *)
(*   SpecChunk    split_with_prompt.chunk_text run to its end              *)
(*   SpecTwitch   the polls of Twitch/twitch_monitor.py                    *)
(*   SpecRecorder ocr_recorder.py: set_capture_area and record_screen      *)
(*   SpecMerge    merge_words.main with its default arguments              *)
(*                                                                         *)
(* In Spec the OCR engine and the translation lookup are taken to return:  *)
(* a frame is any text of Screen, and translate_sentence only decorates    *)
(* what is printed.  The append to the session file may fail, as the loop  *)
(* itself provides for (lines 380-385).                                    *)
(***************************************************************************)
EXTENDS Integers, Sequences, FiniteSets, TLC

VARIABLES
    \* ocr_to_vocab.main, locals of the polling loop
    last_text,        \* raw text of the last processed frame
    seen_words,       \* set of words seen so far
    all_words,        \* list of all words collected
    seen_sentences,   \* set of sentences already emitted
    carry,            \* text after the last terminator
    new_sentences,    \* sentences emitted by the latest iteration
    printed,          \* sentences printed to the console, in order
    session_file,     \* lines appended to the session transcript, in order
    branch,           \* path the latest iteration took through the loop body
    frames,           \* history: every text ocr_region returned, in order
    \* word_clean.calculate_similarity
    text1, text2,     \* the two arguments
    similarity,       \* the returned ratio, as a fraction
    sim_pc,           \* "start" before the call, "done" after it
    \* word_clean.main and remove_duplicates
    seen_blocks,      \* module global: block texts remembered so far
    one_file,         \* whether a file name was given on the command line
    rd_calls,         \* number of session files processed so far
    rd_text,          \* argument of the latest remove_duplicates call
    rd_result,        \* what the latest call returned
    rd_log,           \* history: the duplicate checks of the latest call
    \* word_clean.clean_incomplete_sentences
    cl_text,          \* the argument
    cl_result,        \* the returned text
    cl_state,         \* "start" before the call, "done" after it
    \* the resolvers: word_translate.translate_words and ocr_to_vocab's
    \* get_first_translation, translate_sentence and preserve_case
    prog,             \* the function that is run
    rs_state,         \* "start", "loop", "done", or "raised" when an
                      \* exception left the function
    csv_file,         \* the table at CSV_PATH, a list of rows
    csv_saved,        \* whether save_progress has rewritten the table
    whitelist_file,   \* the words appended to the file at WHITELIST_PATH
    words_data,       \* translate_words: the working table
    tw_i,             \* translate_words: the loop index i
    tw_word,          \* history: the word of the latest processed row
    tw_consulted,     \* history: the stages consulted for that word
    tw_skips,         \* history: the words skipped so far
    store,            \* the bilingual store at DB_PATH
    dict_file,        \* the flat dictionary at DICT_PATH
    gf_word,          \* get_first_translation: the argument
    gf_result,        \* get_first_translation: the returned value
    gf_consulted,     \* history: the stages get_first_translation consulted
    ts_sentence,      \* translate_sentence: the argument
    ts_result,        \* translate_sentence: the returned text
    pc_src, pc_dst,   \* preserve_case: the arguments
    pc_result,        \* preserve_case: the returned text
    \* word_frequency.analyze_word_frequency
    wf_table0,        \* history: the lines of the table before the first run
    wf_table,         \* the lines of the table at output_file
    wf_whitelist,     \* the whitelist file
    wf_texts,         \* history: the contents of the input files analysed so far
    wf_merged,        \* what the latest run returned
    \* word_vocabulary_trainer.VocabularyTrainer
    tr_words_file,    \* the rows of the table at words_file
    tr_whitelist_file, \* the lines of the file at whitelist_file
    tr_words,         \* self.words
    tr_whitelist,     \* self.whitelist
    tr_word,          \* the row being asked, << >> between questions
    tr_learned,       \* history: the words answered correctly
    tr_state,         \* idle, running, ended or interrupted
    \* ocr_to_vocab.main: how a session ends
    phase,            \* idle, running, stopped by Ctrl+C, or aborted by an exception
    output_csv,       \* the rows of the frequency table of the run
    csv_writes,       \* how often the table file was opened for writing
    \* split_with_prompt.chunk_text
    ck_text,          \* the text to split
    ck_max,           \* max_chars
    ck_prefer,        \* prefer_word_boundary
    ck_i,             \* the index i of the generator
    ck_chunks,        \* the chunks yielded so far, in order
    ck_state,         \* "run" while the generator is alive, "done" after it returned
    \* twitch_monitor.main
    tm_opened,        \* the set opened
    tm_token,         \* the access token in use
    tm_log,           \* history: one record per poll, in order
    \* ocr_recorder.OCRRecorder
    rc_top_left,      \* self.top_left, << >> while None
    rc_bottom_right,  \* self.bottom_right, << >> while None
    rc_passes,        \* passes of the recording loop made so far
    rc_session_text,  \* self.session_text
    rc_saved,         \* lines of the session file written by save_session
    rc_state,         \* "setup", "recording" or "stopped"
    \* merge_words.main
    mw_table0,        \* words.csv before the run
    mw_table,         \* words.csv, the rows under the header
    mw_files,         \* the files glob found, in sorted order
    mw_present,       \* indices of the input files still on disk
    mw_next,          \* number of files collected so far
    mw_acc,           \* acc, in insertion order
    mw_merged,        \* indices of the files whose rows went into acc
    mw_state          \* "start", "collect", "written", "done" or "exit"

vars == << last_text, seen_words, all_words, seen_sentences, carry,
           new_sentences, printed, session_file, branch, frames,
           text1, text2, similarity, sim_pc,
           seen_blocks, one_file, rd_calls, rd_text, rd_result, rd_log,
           cl_text, cl_result, cl_state,
           prog, rs_state, csv_file, csv_saved, whitelist_file, words_data,
           tw_i, tw_word, tw_consulted, tw_skips, store, dict_file, gf_word,
           gf_result, gf_consulted, ts_sentence, ts_result, pc_src, pc_dst,
           pc_result,
           wf_table0, wf_table, wf_whitelist, wf_texts, wf_merged,
           tr_words_file, tr_whitelist_file, tr_words, tr_whitelist, tr_word, tr_learned, tr_state,
           phase, output_csv, csv_writes,
           ck_text, ck_max, ck_prefer, ck_i, ck_chunks, ck_state,
           tm_opened, tm_token, tm_log,
           rc_top_left, rc_bottom_right, rc_passes, rc_session_text, rc_saved, rc_state,
           mw_table0, mw_table, mw_files, mw_present, mw_next, mw_acc, mw_merged, mw_state >>

loop_vars == << last_text, seen_words, all_words, seen_sentences, carry,
                new_sentences, printed, session_file, branch, frames >>

sim_vars == << text1, text2, similarity, sim_pc >>

dedup_vars == << seen_blocks, one_file, rd_calls, rd_text, rd_result, rd_log >>

clean_vars == << cl_text, cl_result, cl_state >>

tw_vars == << csv_file, csv_saved, whitelist_file, words_data, tw_i, tw_word,
             tw_consulted, tw_skips >>

gf_vars == << gf_word, gf_result, gf_consulted >>

ts_vars == << ts_sentence, ts_result >>

pc_vars == << pc_src, pc_dst, pc_result >>

resolve_vars == << prog, rs_state, store, dict_file,
                  tw_vars, gf_vars, ts_vars, pc_vars >>

freq_vars == << wf_table0, wf_table, wf_whitelist, wf_texts, wf_merged >>

train_vars == << tr_words_file, tr_whitelist_file, tr_words, tr_whitelist, tr_word, tr_learned, tr_state >>

session_vars == << phase, output_csv, csv_writes >>

chunk_vars == << ck_text, ck_max, ck_prefer, ck_i, ck_chunks, ck_state >>

twitch_vars == << tm_opened, tm_token, tm_log >>

recorder_vars == << rc_top_left, rc_bottom_right, rc_passes, rc_session_text, rc_saved, rc_state >>

merge_vars == << mw_table0, mw_table, mw_files, mw_present, mw_next, mw_acc, mw_merged, mw_state >>

\* what each program leaves alone
outside_loop ==
    << sim_vars, dedup_vars, clean_vars, resolve_vars, freq_vars, train_vars, session_vars, chunk_vars, twitch_vars, recorder_vars,
       merge_vars >>

outside_sim ==
    << loop_vars, dedup_vars, clean_vars, resolve_vars, freq_vars, train_vars, session_vars, chunk_vars, twitch_vars, recorder_vars,
       merge_vars >>

outside_dedup ==
    << loop_vars, sim_vars, clean_vars, resolve_vars, freq_vars, train_vars, session_vars, chunk_vars, twitch_vars, recorder_vars,
       merge_vars >>

outside_clean ==
    << loop_vars, sim_vars, dedup_vars, resolve_vars, freq_vars, train_vars, session_vars, chunk_vars, twitch_vars, recorder_vars,
       merge_vars >>

outside_resolve ==
    << loop_vars, sim_vars, dedup_vars, clean_vars, freq_vars, train_vars, session_vars, chunk_vars, twitch_vars, recorder_vars,
       merge_vars >>

outside_freq ==
    << loop_vars, sim_vars, dedup_vars, clean_vars, resolve_vars, train_vars, session_vars, chunk_vars, twitch_vars, recorder_vars,
       merge_vars >>

outside_train ==
    << loop_vars, sim_vars, dedup_vars, clean_vars, resolve_vars, freq_vars, session_vars, chunk_vars, twitch_vars, recorder_vars,
       merge_vars >>

outside_session ==
    << loop_vars, sim_vars, dedup_vars, clean_vars, resolve_vars, freq_vars, train_vars, chunk_vars, twitch_vars, recorder_vars,
       merge_vars >>

outside_merge ==
    << loop_vars, sim_vars, dedup_vars, clean_vars, resolve_vars, freq_vars, train_vars, chunk_vars, twitch_vars, recorder_vars, session_vars >>

outside_recorder ==
    << loop_vars, sim_vars, dedup_vars, clean_vars, resolve_vars, freq_vars, train_vars, chunk_vars, twitch_vars, session_vars,
       merge_vars >>

outside_twitch ==
    << loop_vars, sim_vars, dedup_vars, clean_vars, resolve_vars, freq_vars, train_vars, chunk_vars, session_vars, recorder_vars,
       merge_vars >>

outside_chunk ==
    << loop_vars, sim_vars, dedup_vars, clean_vars, resolve_vars, freq_vars, train_vars, session_vars, twitch_vars, recorder_vars,
       merge_vars >>

----------------------------------------------------------------------------
(* Bounds *)

\* longest generated frame, in characters
MaxLen == 3

\* number of frames the OCR engine delivers in one run
MaxFrames == 2

\* longest text handed to calculate_similarity, in characters
SimMaxLen == 4

\* longest session file, in lines, when one file is cleaned
MaxLines == 6

\* longest session file, in lines, when every session file is cleaned
RunMaxLines == 2

\* number of session files in the directory
MaxCalls == 2

\* longest generated line handed to clean_incomplete_sentences, in characters
CleanMaxLen == 5

\* most rows of the table translate_words reads
MaxRows == 2

\* longest generated sentence handed to translate_sentence, in characters
SentMaxLen == 4

\* longest generated arguments of preserve_case, in characters
CaseMaxLen == 3

\* number of input files analyze_word_frequency is run on
MaxRuns == 2

\* number of rows of the table before the first run
MaxTableLines == 2

\* number of words in an input file
MaxTokens == 2

\* number of rows of the table the trainer starts from
MaxTrainRows == 2

\* the sentences one frame may complete before an interrupt arrives
MaxNew == 2

\* length of the texts chunk_text splits, and the largest max_chars
ChunkMaxLen == 5

MaxChars == 4

\* number of polls of the Twitch monitor
MaxPolls == 3

\* passes of the recording loop, and the largest screen coordinate
MaxPasses == 2

MaxCoord == 2

\* number of words_*.csv files of a run of merge_words
MaxFiles == 2

----------------------------------------------------------------------------
(* Characters and strings *)

UpperCase == << "A","B","C","D","E","F","G","H","I","J","K","L","M",
                "N","O","P","Q","R","S","T","U","V","W","X","Y","Z" >>

LowerCase == << "a","b","c","d","e","f","g","h","i","j","k","l","m",
                "n","o","p","q","r","s","t","u","v","w","x","y","z" >>

Range(s) == { s[i] : i \in DOMAIN s }

\* Python's \s and str.strip() whitespace
IsSpace(c) == c \in { " ", "\n", "\t", "\r" }

\* the character class of WORD_RE
IsWordChar(c) == c \in Range(UpperCase) \cup Range(LowerCase) \cup { "-" }

\* str.lower() on one character
LowerChar(c) ==
    IF c \in Range(UpperCase)
    THEN LowerCase[CHOOSE i \in DOMAIN UpperCase : UpperCase[i] = c]
    ELSE c

Lower(s) == [ i \in DOMAIN s |-> LowerChar(s[i]) ]

\* all strings over alphabet A of length at most n
StringsUpTo(A, n) == UNION { [1..k -> A] : k \in 0..n }

RECURSIVE LStrip(_)
LStrip(s) ==
    IF s # << >> /\ IsSpace(Head(s)) THEN LStrip(Tail(s)) ELSE s

RECURSIVE RStrip(_)
RStrip(s) ==
    IF s # << >> /\ IsSpace(s[Len(s)])
    THEN RStrip(SubSeq(s, 1, Len(s) - 1))
    ELSE s

\* str.strip()
Strip(s) == RStrip(LStrip(s))

\* str.rfind(c), as a Python index: -1 when c does not occur
rfind(s, c) ==
    LET hits == { i \in DOMAIN s : s[i] = c }
    IN  IF hits = {} THEN -1
        ELSE (CHOOSE i \in hits : \A j \in hits : j <= i) - 1

Max(a, b) == IF a >= b THEN a ELSE b

\* first index k >= i with s[k] not whitespace, Len(s)+1 when there is none
RECURSIVE SkipSpaces(_, _)
SkipSpaces(s, i) ==
    IF i <= Len(s) /\ IsSpace(s[i]) THEN SkipSpaces(s, i + 1) ELSE i

\* re.sub(r"[\s\r\n]+", " ", s): every whitespace run becomes one space
RECURSIVE CollapseSpaces(_, _)
CollapseSpaces(s, i) ==
    IF i > Len(s) THEN << >>
    ELSE IF IsSpace(s[i])
         THEN << " " >> \o CollapseSpaces(s, SkipSpaces(s, i))
         ELSE << s[i] >> \o CollapseSpaces(s, i + 1)

\* the list with its empty members dropped, the others stripped
RECURSIVE StripNonEmpty(_)
StripNonEmpty(parts) ==
    IF parts = << >> THEN << >>
    ELSE IF Strip(Head(parts)) = << >>
         THEN StripNonEmpty(Tail(parts))
         ELSE << Strip(Head(parts)) >> \o StripNonEmpty(Tail(parts))

----------------------------------------------------------------------------
(* ocr_to_vocab.py: pure functions *)

SKIP_IF_NO_CHANGE == TRUE

\* the characters re.split treats as the end of a sentence
SplitTerminators == { ".", "?", "!" }

\* maximal runs of WORD_RE characters in s, from index i on; cur is the run
\* being read
RECURSIVE WordRuns(_, _, _)
WordRuns(s, i, cur) ==
    IF i > Len(s) THEN << cur >>
    ELSE IF IsWordChar(s[i])
         THEN WordRuns(s, i + 1, Append(cur, s[i]))
         ELSE << cur >> \o WordRuns(s, i + 1, << >>)

RECURSIVE StripHyphens(_)
StripHyphens(w) ==
    IF w # << >> /\ Head(w) = "-" THEN StripHyphens(Tail(w))
    ELSE IF w # << >> /\ w[Len(w)] = "-"
         THEN StripHyphens(SubSeq(w, 1, Len(w) - 1))
         ELSE w

\* WORD_RE.findall(text): runs of at least two word characters
FindWords(text) == SelectSeq(WordRuns(text, 1, << >>), LAMBDA w : Len(w) >= 2)

RECURSIVE CleanWords(_)
CleanWords(ws) ==
    IF ws = << >> THEN << >>
    ELSE LET w == Lower(StripHyphens(Head(ws)))
         IN  IF Len(w) >= 2
             THEN << w >> \o CleanWords(Tail(ws))
             ELSE CleanWords(Tail(ws))

extract_words_from_text(text) == CleanWords(FindWords(text))

normalize_for_sentence_accum(text) == Strip(CollapseSpaces(text, 1))

\* re.split(r"(?<=[.?!])\s+", s): cut at every whitespace run that follows
\* a terminator; cur is the part being read
RECURSIVE SplitSentences(_, _, _)
SplitSentences(s, i, cur) ==
    IF i > Len(s) THEN << cur >>
    ELSE IF IsSpace(s[i]) /\ i > 1 /\ s[i - 1] \in SplitTerminators
         THEN << cur >> \o SplitSentences(s, SkipSpaces(s, i), << >>)
         ELSE SplitSentences(s, i + 1, Append(cur, s[i]))

\* LastTerminator looking for '.' only
LastTerminator_PeriodOnly(text) == rfind(text, ".")

\* LastTerminator taking '!' for a chunk terminator too
LastTerminator_WithBang(text) ==
    Max(Max(rfind(text, "."), rfind(text, "?")), rfind(text, "!"))

\* index of the last chunk terminator, as a Python index
LastTerminator(text) == Max(rfind(text, "."), rfind(text, "?"))

completed_sentences_and_remainder(text) ==
    IF text = << >>
    THEN [ sentences |-> << >>, remainder |-> << >> ]
    ELSE LET end == LastTerminator(text)
         IN  IF end = -1
             THEN [ sentences |-> << >>, remainder |-> Strip(text) ]
             ELSE LET completed_chunk == SubSeq(text, 1, end + 1)
                      rest == SubSeq(text, end + 2, Len(text))
                  IN  [ sentences |->
                            StripNonEmpty(SplitSentences(completed_chunk, 1, << >>)),
                        remainder |-> Strip(rest) ]

\* Batch without the separating space
Batch_NoSpace(c, cleaned) ==
    IF c # << >> THEN Strip(c \o cleaned) ELSE cleaned

\* Batch that forgets the carry buffer
Batch_DropCarry(c, cleaned) == cleaned

\* Batch with the frame put before the carry buffer
Batch_FrameFirst(c, cleaned) ==
    IF c # << >> THEN Strip(cleaned \o << " " >> \o c) ELSE cleaned

\* batch = f"{carry} {cleaned}".strip() if carry else cleaned
Batch(c, cleaned) ==
    IF c # << >> THEN Strip(c \o << " " >> \o cleaned) ELSE cleaned

\* [s for s in completed if s not in seen_sentences]
NewSentences(completed, seen) ==
    SelectSeq(completed, LAMBDA s : s \notin seen)

\* IsBlank without the strip
IsBlank_EmptyOnly(text) == text = << >>

\* `not text or not text.strip()`
IsBlank(text) == text = << >> \/ Strip(text) = << >>

\* IsUnchanged with the skip switched off
IsUnchanged_Never(text, last) == FALSE

\* `SKIP_IF_NO_CHANGE and text == last_text`
IsUnchanged(text, last) == SKIP_IF_NO_CHANGE /\ text = last

----------------------------------------------------------------------------
(* word_clean.py: pure functions *)

\* str.split(): the maximal runs of non-whitespace characters
RECURSIVE SplitWs(_, _, _)
SplitWs(s, i, cur) ==
    IF i > Len(s) THEN (IF cur = << >> THEN << >> ELSE << cur >>)
    ELSE IF IsSpace(s[i])
         THEN (IF cur = << >> THEN << >> ELSE << cur >>)
                  \o SplitWs(s, i + 1, << >>)
         ELSE SplitWs(s, i + 1, Append(cur, s[i]))

\* set(text.split())
WordSet(text) == Range(SplitWs(text, 1, << >>))

\* a float result n/d, kept exact
Ratio(n, d) == [ num |-> n, den |-> d ]

Zero == Ratio(0, 1)

\* equality of two ratios with positive denominators
RatioEq(x, y) == x.num * y.den = y.num * x.den

\* calculate_similarity dividing by the first text's word count
calculate_similarity_OverFirst(t1, t2) ==
    LET words1 == WordSet(t1)
        words2 == WordSet(t2)
    IN  IF words1 = {} \/ words2 = {}
        THEN Zero
        ELSE Ratio(Cardinality(words1 \cap words2), Cardinality(words1))

calculate_similarity(t1, t2) ==
    LET words1 == WordSet(t1)
        words2 == WordSet(t2)
    IN  IF words1 = {} \/ words2 = {}
        THEN Zero
        ELSE LET intersection == Cardinality(words1 \cap words2)
                 union == Cardinality(words1 \cup words2)
             IN  IF union > 0 THEN Ratio(intersection, union) ELSE Zero

\* x > y for two ratios with positive denominators
RatioGt(x, y) == x.num * y.den > y.num * x.den

IsDigit(c) == c \in { "0", "1", "2", "3", "4", "5", "6", "7", "8", "9" }

IsUpper(c) == c \in Range(UpperCase)

\* text.split('\n'); cur is the line being read
RECURSIVE SplitLines(_, _, _)
SplitLines(s, i, cur) ==
    IF i > Len(s) THEN << cur >>
    ELSE IF s[i] = "\n"
         THEN << cur >> \o SplitLines(s, i + 1, << >>)
         ELSE SplitLines(s, i + 1, Append(cur, s[i]))

\* '\n'.join(ls)
RECURSIVE JoinLines(_)
JoinLines(ls) ==
    IF ls = << >> THEN << >>
    ELSE IF Len(ls) = 1 THEN ls[1]
         ELSE Head(ls) \o << "\n" >> \o JoinLines(Tail(ls))

\* the fixed part of the one speaker pattern
SpeakerPrefix ==
    << "J","o","n","a","t","h","a","n"," ","S","p","i","l","l"," " >>

\* first index k >= i with s[k] not a digit
RECURSIVE SkipDigits(_, _)
SkipDigits(s, i) ==
    IF i <= Len(s) /\ IsDigit(s[i]) THEN SkipDigits(s, i + 1) ELSE i

\* re.match(r'^(Jonathan Spill \d+ [A-Z]+)$', line.strip())
is_speaker_line(line) ==
    LET s == Strip(line)
        n == Len(SpeakerPrefix)
        d == SkipDigits(s, n + 1)
    IN  /\ Len(s) > n
        /\ SubSeq(s, 1, n) = SpeakerPrefix
        /\ d > n + 1
        /\ d < Len(s)
        /\ s[d] = " "
        /\ \A k \in (d + 1)..Len(s) : IsUpper(s[k])

\* re.sub(r'[,.]*$', '', s): the trailing run of commas and periods goes
RECURSIVE StripTrailingPunct(_)
StripTrailingPunct(s) ==
    IF s # << >> /\ s[Len(s)] \in { ",", "." }
    THEN StripTrailingPunct(SubSeq(s, 1, Len(s) - 1))
    ELSE s

\* normalize_text without the lower()
normalize_text_KeepCase(text) ==
    StripTrailingPunct(CollapseSpaces(Strip(text), 1))

normalize_text(text) ==
    Lower(StripTrailingPunct(CollapseSpaces(Strip(text), 1)))

\* the literal 0.7 of `similarity > 0.7`
SimilarityThreshold == Ratio(7, 10)

\* lines 122-138 and 165-181: an exact match in seen_blocks, or a similarity
\* above the threshold with one of its members
IsDuplicate(block_text, seen) ==
    \/ block_text \in seen
    \/ \E seen_block \in seen :
          RatioGt(calculate_similarity(normalize_text(block_text),
                                       normalize_text(seen_block)),
                  SimilarityThreshold)

\* extend putting the new items in front
extend_InFront(list, items) == items \o list

\* list.extend(items)
extend(list, items) == list \o items

\* one duplicate check, as rd_log records it
Check(block_text, seen, is_duplicate, last) ==
    [ block |-> block_text, seen |-> seen,
      is_duplicate |-> is_duplicate, last |-> last ]

\* the while loop of remove_duplicates, lines 110-159, from Python index i on;
\* st holds the locals and the seen-set; last_speaker None is << >>
RECURSIVE RemoveLoop(_, _, _)
RemoveLoop(lines, i, st) ==
    IF i >= Len(lines) THEN st
    ELSE
      LET line == Strip(lines[i + 1])
      IN  IF line = << >> THEN RemoveLoop(lines, i + 1, st)
          ELSE IF is_speaker_line(line)
          THEN IF st.current_block # << >> /\ st.last_speaker # << >>
               THEN LET block_text == JoinLines(st.current_block)
                        is_duplicate == IsDuplicate(block_text, st.seen)
                        check == Check(block_text, st.seen, is_duplicate, FALSE)
                    IN  IF is_duplicate
                        THEN RemoveLoop(lines, i + Len(st.current_block),
                                [ st EXCEPT !.current_block = << line >>,
                                            !.last_speaker = line,
                                            !.log = Append(@, check) ])
                        ELSE RemoveLoop(lines, i + 1,
                                [ seen |-> st.seen \cup { block_text },
                                  cleaned_lines |->
                                      extend(st.cleaned_lines, st.current_block),
                                  current_block |-> << line >>,
                                  last_speaker |-> line,
                                  log |-> Append(st.log, check) ])
               ELSE RemoveLoop(lines, i + 1,
                       [ st EXCEPT !.cleaned_lines = extend(@, st.current_block),
                                   !.current_block = << line >>,
                                   !.last_speaker = line ])
          ELSE RemoveLoop(lines, i + 1,
                  [ st EXCEPT !.current_block = Append(@, line) ])

\* remove_duplicates(text) run on the seen-set `seen`: what it returns, the
\* seen-set it leaves, and the checks it made
remove_duplicates(text, seen) ==
    LET lines == SplitLines(text, 1, << >>)
        st == RemoveLoop(lines, 0,
                  [ seen |-> seen, cleaned_lines |-> << >>,
                    current_block |-> << >>, last_speaker |-> << >>,
                    log |-> << >> ])
    IN  IF st.current_block # << >>
        THEN LET block_text == JoinLines(st.current_block)
                 is_duplicate == IsDuplicate(block_text, st.seen)
                 check == Check(block_text, st.seen, is_duplicate, TRUE)
             IN  [ result |->
                       JoinLines(IF is_duplicate THEN st.cleaned_lines
                                 ELSE extend(st.cleaned_lines, st.current_block)),
                   seen |-> st.seen,
                   log |-> Append(st.log, check) ]
        ELSE [ result |-> JoinLines(st.cleaned_lines),
               seen |-> st.seen,
               log |-> st.log ]

\* line.endswith(('.', '!', '?', ',', ':', ';'))
EndsWithPunct(line) ==
    line # << >> /\ line[Len(line)] \in { ".", "!", "?", ",", ":", ";" }

\* ' '.join(ws)
RECURSIVE JoinWords(_)
JoinWords(ws) ==
    IF ws = << >> THEN << >>
    ELSE IF Len(ws) = 1 THEN ws[1]
         ELSE Head(ws) \o << " " >> \o JoinWords(Tail(ws))

\* the limits of lines 62 and 69
ShortWordLen == 3

ShortLineLen == 10

\* the alternatives of the filler pattern of line 71
FillerWords ==
    { << "a","l","s","o" >>, << "j","a" >>, << "n","e","i","n" >>,
      << "n","e","e" >>, << "a","b","e","r" >>, << "u","n","d" >>,
      << "o","d","e","r" >>, << "d","a","s","s" >>, << "d","a","s" >>,
      << "d","i","e" >>, << "d","e","r" >>, << "d","e","n" >>,
      << "d","e","m" >> }

\* re.match(r'^(also|ja|...|dem)\.?$', line.lower())
IsFiller(line) ==
    LET l == Lower(line)
    IN  \/ l \in FillerWords
        \/ /\ l # << >>
           /\ l[Len(l)] = "."
           /\ SubSeq(l, 1, Len(l) - 1) \in FillerWords

\* IsShortWord with the limit 2
IsShortWord_UpTo2(w) == Len(w) <= 2

\* `len(words[-1]) <= 3`
IsShortWord(w) == Len(w) <= ShortWordLen

\* DropShortLastWord without the closing period of lines 65-66
DropShortLastWord_NoPeriod(line) ==
    IF line # << >> /\ ~ EndsWithPunct(line)
    THEN LET words == SplitWs(line, 1, << >>)
         IN  IF words # << >> /\ IsShortWord(words[Len(words)])
             THEN JoinWords(SubSeq(words, 1, Len(words) - 1))
             ELSE line
    ELSE line

\* lines 57-66: a short last word of a line without final punctuation is
\* removed and the rest closed with a period
DropShortLastWord(line) ==
    IF line # << >> /\ ~ EndsWithPunct(line)
    THEN LET words == SplitWs(line, 1, << >>)
         IN  IF words # << >> /\ IsShortWord(words[Len(words)])
             THEN LET rest == JoinWords(SubSeq(words, 1, Len(words) - 1))
                  IN  IF rest # << >> /\ ~ EndsWithPunct(rest)
                      THEN Append(rest, ".")
                      ELSE rest
             ELSE line
    ELSE line

\* the body of the for loop, lines 48-75: the lines appended to
\* cleaned_lines for one input line, none or one
CleanLine(raw) ==
    LET line == Strip(raw)
    IN  IF line = << >> THEN << >>
        ELSE IF is_speaker_line(line) THEN << line >>
        ELSE LET fixed == DropShortLastWord(line)
             IN  IF fixed # << >> /\ Len(fixed) < ShortLineLen /\ IsFiller(fixed)
                 THEN << >>
                 ELSE IF fixed # << >> THEN << fixed >> ELSE << >>

RECURSIVE CleanLines(_)
CleanLines(lines) ==
    IF lines = << >> THEN << >>
    ELSE CleanLine(Head(lines)) \o CleanLines(Tail(lines))

clean_incomplete_sentences(text) ==
    JoinLines(CleanLines(SplitLines(text, 1, << >>)))

----------------------------------------------------------------------------
(* Python values of the resolvers *)

PyNone == [ type |-> "none", val |-> << >> ]

\* the empty list []
PyList == [ type |-> "list", val |-> << >> ]

PyStr(v) == [ type |-> "str", val |-> v ]

\* the truth value of a Python value: None, [] and '' are false
Truthy(x) == x.type = "str" /\ x.val # << >>

\* one consulted stage: its name, what it returned, whether it failed
Stage(name, result, failed) ==
    [ stage |-> name, result |-> result, failed |-> failed ]

----------------------------------------------------------------------------
(* word_translate.py: pure functions *)

\* str.strip('"')
RECURSIVE StripQuotes(_)
StripQuotes(w) ==
    IF w # << >> /\ Head(w) = "\"" THEN StripQuotes(Tail(w))
    ELSE IF w # << >> /\ w[Len(w)] = "\""
         THEN StripQuotes(SubSeq(w, 1, Len(w) - 1))
         ELSE w

\* what the query of the bilingual store can do: raise sqlite3.Error, find
\* no row, find a row whose trans_list is NULL, empty, or a text
DbOutcomes == { "error", "norow", "null", "empty", "found" }

DbText == << "h", " ", "|", " ", "i" >>

\* get_translation_from_db(word, conn), lines 27-38
get_translation_from_db(db) ==
    CASE db = "found" -> PyStr(DbText)
      [] db = "empty" -> PyStr(<< >>)
      [] OTHER -> PyNone

\* what the remote service can do: raise requests.RequestException, answer
\* without translations, with an empty text, or with a text
DeeplOutcomes == { "unreachable", "none", "empty", "found" }

DeeplText == << "g" >>

\* get_translation_from_deepl(word), lines 40-63
get_translation_from_deepl(deepl) ==
    CASE deepl = "found" -> PyStr(DeeplText)
      [] deepl = "empty" -> PyStr(<< >>)
      [] OTHER -> PyNone

\* what the operator can type at the prompt
UserInputs == { << >>, << " " >>, << "m", " " >> }

\* NeedsNext that never goes on to the next stage
NeedsNext_Never(translation) == FALSE

\* NeedsNext that always goes on to the next stage
NeedsNext_Always(translation) == TRUE

\* `if not translation`, lines 155 and 159
NeedsNext(translation) == ~ Truthy(translation)

\* lines 151-171: the fallback chain for one word; skip is the branch that
\* whitelists the word
ResolveWord(db, deepl, user) ==
    LET t1 == get_translation_from_db(db)
        s1 == << Stage("db", t1, db = "error") >>
    IN  IF ~ NeedsNext(t1)
        THEN [ translation |-> t1, skip |-> FALSE, consulted |-> s1 ]
        ELSE
          LET t2 == get_translation_from_deepl(deepl)
              s2 == Append(s1, Stage("deepl", t2, deepl = "unreachable"))
          IN  IF ~ NeedsNext(t2)
              THEN [ translation |-> t2, skip |-> FALSE, consulted |-> s2 ]
              ELSE
                LET user_translation == Strip(user)
                    s3 == Append(s2, Stage("prompt", PyStr(user_translation),
                                           FALSE))
                IN  IF user_translation # << >>
                    THEN [ translation |-> PyStr(user_translation),
                           skip |-> FALSE, consulted |-> s3 ]
                    ELSE [ translation |-> t2, skip |-> TRUE,
                           consulted |-> s3 ]

\* RemoveAt that leaves the row in the table
RemoveAt_Keep(list, i) == list

\* list.pop(i), i a Python index
RemoveAt(list, i) == SubSeq(list, 1, i) \o SubSeq(list, i + 2, Len(list))

\* a row lacks a translation, lines 123 and 143
LacksTranslation(row) == StripQuotes(row.translation) = << >>

----------------------------------------------------------------------------
(* ocr_to_vocab.py: the resolver *)

\* get_translations_for_word_exact, lines 166-181: the store raises when it
\* cannot be opened or queried; no row gives [], a row gives its trans_list
get_translations_for_word_exact(st, word) ==
    IF ~ st.ok THEN [ raised |-> TRUE, value |-> PyNone ]
    ELSE [ raised |-> FALSE,
           value |-> IF Lower(word) \in DOMAIN st.rows
                     THEN st.rows[Lower(word)]
                     ELSE PyList ]

\* get_translation_from_dict, lines 210-252: None when the file is missing
\* or has no entry for the word; an unreadable file raises
get_translation_from_dict(d, word) ==
    IF ~ d.exists THEN [ raised |-> FALSE, value |-> PyNone ]
    ELSE IF ~ d.readable THEN [ raised |-> TRUE, value |-> PyNone ]
    ELSE [ raised |-> FALSE,
           value |-> IF Lower(word) \in DOMAIN d.entries
                     THEN PyStr(d.entries[Lower(word)])
                     ELSE PyNone ]

\* s.split("|")[0]
RECURSIVE SplitFirst(_)
SplitFirst(t) ==
    IF t = << >> \/ Head(t) = "|" THEN << >>
    ELSE << Head(t) >> \o SplitFirst(Tail(t))

\* get_first_translation, lines 184-207; a truthy res is always a string
get_first_translation(st, d, word) ==
    LET q == get_translations_for_word_exact(st, word)
    IN  IF q.raised
        THEN [ raised |-> TRUE, value |-> PyNone,
               consulted |-> << Stage("store", PyNone, TRUE) >> ]
        ELSE
          LET res == q.value
              first == IF Truthy(res) THEN Strip(SplitFirst(res.val))
                       ELSE << >>
              s1 == << Stage("store", res, FALSE) >>
          IN  IF first # << >>
              THEN [ raised |-> FALSE, value |-> PyStr(first),
                     consulted |-> s1 ]
              ELSE
                LET dr == get_translation_from_dict(d, word)
                IN  [ raised |-> FALSE,
                      value |-> IF ~ dr.raised /\ Truthy(dr.value)
                                THEN dr.value ELSE PyNone,
                      consulted |->
                          Append(s1, Stage("dict", dr.value, dr.raised)) ]

IsLower(c) == c \in Range(LowerCase)

\* str.upper() on one character
UpperChar(c) ==
    IF IsLower(c)
    THEN UpperCase[CHOOSE i \in DOMAIN LowerCase : LowerCase[i] = c]
    ELSE c

Upper(t) == [ i \in DOMAIN t |-> UpperChar(t[i]) ]

\* str.isupper(): some cased character, and no lower-case one
isupper(t) ==
    /\ \E i \in DOMAIN t : IsUpper(t[i])
    /\ \A i \in DOMAIN t : ~ IsLower(t[i])

\* preserve_case that only ever capitalises
preserve_case_FirstOnly(src, dst) ==
    IF dst = << >> THEN dst
    ELSE IF IsUpper(src[1]) THEN << UpperChar(dst[1]) >> \o Tail(dst)
    ELSE dst

\* preserve_case, lines 255-262
preserve_case(src, dst) ==
    IF dst = << >> THEN dst
    ELSE IF isupper(src) THEN Upper(dst)
    ELSE IF IsUpper(src[1]) THEN << UpperChar(dst[1]) >> \o Tail(dst)
    ELSE dst

\* first index k >= i with s[k] not a word character
RECURSIVE RunEnd(_, _)
RunEnd(t, i) ==
    IF i <= Len(t) /\ IsWordChar(t[i]) THEN RunEnd(t, i + 1) ELSE i

\* WORD_RE.sub(repl, sentence) from index i on: every run of two or more
\* word characters is handed to repl
RECURSIVE Substitute(_, _, _, _)
Substitute(st, d, t, i) ==
    IF i > Len(t) THEN [ raised |-> FALSE, text |-> << >> ]
    ELSE
      LET j == RunEnd(t, i)
      IN  IF j = i
          THEN LET rest == Substitute(st, d, t, i + 1)
               IN  [ raised |-> rest.raised, text |-> << t[i] >> \o rest.text ]
          ELSE
            LET token == SubSeq(t, i, j - 1)
            IN  IF j - i < 2
                THEN LET rest == Substitute(st, d, t, j)
                     IN  [ raised |-> rest.raised, text |-> token \o rest.text ]
                ELSE
                  LET r == get_first_translation(st, d, token)
                  IN  IF r.raised THEN [ raised |-> TRUE, text |-> << >> ]
                      ELSE
                        LET out == IF ~ Truthy(r.value) THEN token
                                   ELSE preserve_case(token, r.value.val)
                            rest == Substitute(st, d, t, j)
                        IN  [ raised |-> rest.raised,
                              text |-> out \o rest.text ]

\* translate_sentence, lines 265-273: nothing is returned when a lookup
\* raised
translate_sentence(st, d, sentence) ==
    LET r == Substitute(st, d, sentence, 1)
    IN  IF r.raised THEN [ raised |-> TRUE, text |-> << >> ] ELSE r

----------------------------------------------------------------------------
(* The stores the resolvers of ocr_to_vocab.py read *)

\* the file at DB_PATH is missing, or has no translation table
NoStore == [ ok |-> FALSE, rows |-> << >> ]

EmptyStore == [ ok |-> TRUE, rows |-> << >> ]

\* written_rep -> trans_list: several alternatives, an empty first
\* alternative, NULL, and the empty text
Store1 ==
    [ ok |-> TRUE,
      rows |-> (<< "a", "b" >> :> PyStr(<< "x", " ", "y", " ", "|", " ", "z" >>))
            @@ (<< "b", "a" >> :> PyStr(<< " ", "|", " ", "q" >>))
            @@ (<< "b", "b" >> :> PyNone)
            @@ (<< "a", "a" >> :> PyStr(<< >>)) ]

Stores == { NoStore, EmptyStore, Store1 }

NoDict == [ exists |-> FALSE, readable |-> FALSE, entries |-> << >> ]

UnreadableDict == [ exists |-> TRUE, readable |-> FALSE, entries |-> << >> ]

\* headword -> the line that follows it
Dict1 ==
    [ exists |-> TRUE, readable |-> TRUE,
      entries |-> (<< "b", "a" >> :> << "d" >>) @@ (<< "a", "a" >> :> << "e" >>) ]

Dicts == { NoDict, UnreadableDict, Dict1 }

----------------------------------------------------------------------------
(* word_frequency.py: pure functions.  A table file is the sequence of its *)
(* lines after the header line, which line 67 skips and line 97 writes.    *)

IsLetter(c) == c \in Range(UpperCase) \cup Range(LowerCase)

\* clean_word, lines 15-19: only letters are kept
clean_word(word) == SelectSeq(word, IsLetter)

Digits == << "0", "1", "2", "3", "4", "5", "6", "7", "8", "9" >>

DigitVal(c) == (CHOOSE i \in DOMAIN Digits : Digits[i] = c) - 1

RECURSIVE DigitsVal(_)
DigitsVal(t) ==
    IF t = << >> THEN 0
    ELSE 10 * DigitsVal(SubSeq(t, 1, Len(t) - 1)) + DigitVal(t[Len(t)])

\* int(s): surrounding whitespace and a sign are accepted; anything else
\* than digits raises ValueError
ParseInt(t) ==
    LET u == Strip(t)
        signed == u # << >> /\ u[1] \in { "+", "-" }
        d == IF signed THEN Tail(u) ELSE u
    IN  IF d # << >> /\ \A i \in DOMAIN d : IsDigit(d[i])
        THEN [ ok |-> TRUE,
               val |-> IF signed /\ u[1] = "-" THEN 0 - DigitsVal(d)
                       ELSE DigitsVal(d) ]
        ELSE [ ok |-> FALSE, val |-> 0 ]

RECURSIVE NatToStr(_)
NatToStr(n) ==
    IF n < 10 THEN << Digits[n + 1] >>
    ELSE NatToStr(n \div 10) \o << Digits[(n % 10) + 1] >>

\* str(n)
IntToStr(n) == IF n < 0 THEN << "-" >> \o NatToStr(0 - n) ELSE NatToStr(n)

\* the first index >= from where t holds c, 0 when there is none
IndexOf(t, c, from) ==
    LET hits == { i \in from..Len(t) : t[i] = c }
    IN  IF hits = {} THEN 0 ELSE CHOOSE i \in hits : \A j \in hits : i <= j

\* line.split(",", 2)
SplitMax2(line) ==
    LET i == IndexOf(line, ",", 1)
        j == IF i = 0 THEN 0 ELSE IndexOf(line, ",", i + 1)
    IN  IF i = 0 THEN << line >>
        ELSE IF j = 0
             THEN << SubSeq(line, 1, i - 1), SubSeq(line, i + 1, Len(line)) >>
             ELSE << SubSeq(line, 1, i - 1), SubSeq(line, i + 1, j - 1),
                     SubSeq(line, j + 1, Len(line)) >>

\* str.strip(c) for one character c
RECURSIVE StripChar(_, _)
StripChar(t, c) ==
    IF t # << >> /\ Head(t) = c THEN StripChar(Tail(t), c)
    ELSE IF t # << >> /\ t[Len(t)] = c
         THEN StripChar(SubSeq(t, 1, Len(t) - 1), c)
         ELSE t

\* .strip('"').strip("'"), lines 74 and 77
Unquote(t) == StripChar(StripChar(t, "\""), "'")

\* a dict in insertion order: d[word] = value
Put(d, word, frequency, translation) ==
    LET r == [ word |-> word, frequency |-> frequency,
               translation |-> translation ]
    IN  IF \E k \in DOMAIN d : d[k].word = word
        THEN [ k \in DOMAIN d |-> IF d[k].word = word THEN r ELSE d[k] ]
        ELSE Append(d, r)

HasKey(d, word) == \E k \in DOMAIN d : d[k].word = word

Get(d, word) == d[CHOOSE k \in DOMAIN d : d[k].word = word]

\* lines 68-78: the rows of the existing table; an exception raised by a
\* row is caught at line 79, outside the loop
RECURSIVE LoadRows(_, _, _)
LoadRows(lines, i, ex) ==
    IF i > Len(lines) THEN ex
    ELSE
      LET line == Strip(lines[i])
          parts == SplitMax2(line)
      IN  IF line = << >> \/ Len(parts) < 2
          THEN LoadRows(lines, i + 1, ex)
          ELSE
            LET frequency == ParseInt(parts[1])
            IN  IF ~ frequency.ok THEN ex
                ELSE LoadRows(lines, i + 1,
                         Put(ex, Unquote(parts[2]), frequency.val,
                             IF Len(parts) > 2 THEN Unquote(parts[3])
                             ELSE << >>))

\* WhitelistWords that keeps the case of the lines
RECURSIVE WhitelistWords_NoLower(_)
WhitelistWords_NoLower(lines) ==
    IF lines = << >> THEN {}
    ELSE
      LET word == Strip(Head(lines))
          cleaned == clean_word(word)
      IN  (IF word # << >> /\ word[1] # "#" /\ cleaned # << >>
           THEN { cleaned } ELSE {})
              \cup WhitelistWords_NoLower(Tail(lines))

\* load_whitelist, lines 21-38, of a file that was read
RECURSIVE WhitelistWords(_)
WhitelistWords(lines) ==
    IF lines = << >> THEN {}
    ELSE
      LET word == Strip(Head(lines))
          cleaned == clean_word(Lower(word))
      IN  (IF word # << >> /\ word[1] # "#" /\ cleaned # << >>
           THEN { cleaned } ELSE {})
              \cup WhitelistWords(Tail(lines))

\* load_whitelist: a file that is missing or cannot be read gives the
\* empty set
load_whitelist(wl) ==
    IF wl.readable THEN WhitelistWords(wl.lines) ELSE {}

\* the shortest word that is counted has MinWordLen + 1 letters
MinWordLen == 2

\* lines 53-60: the Counter of the new text, in order of first occurrence
RECURSIVE CountWords(_, _, _)
CountWords(words, whitelist, counts) ==
    IF words = << >> THEN counts
    ELSE
      LET cleaned == clean_word(Head(words))
          next == IF Len(cleaned) > MinWordLen /\ cleaned \notin whitelist
                  THEN Put(counts, cleaned,
                           (IF HasKey(counts, cleaned)
                            THEN Get(counts, cleaned).frequency ELSE 0) + 1,
                           << >>)
                  ELSE counts
      IN  CountWords(Tail(words), whitelist, next)

\* lines 83-92
RECURSIVE MergeCounts(_, _)
MergeCounts(ex, counts) ==
    IF counts = << >> THEN ex
    ELSE
      LET c == Head(counts)
          next == IF HasKey(ex, c.word)
                  THEN Put(ex, c.word, Get(ex, c.word).frequency + c.frequency,
                           Get(ex, c.word).translation)
                  ELSE Put(ex, c.word, c.frequency, << >>)
      IN  MergeCounts(next, Tail(counts))

\* sorted(..., key=frequency, reverse=True): stable, rows of equal
\* frequency keep their order
RECURSIVE SortByFrequency(_)
SortByFrequency(ex) ==
    IF ex = << >> THEN << >>
    ELSE
      LET done == SortByFrequency(SubSeq(ex, 1, Len(ex) - 1))
          r == ex[Len(ex)]
          k == Cardinality({ i \in DOMAIN done :
                               done[i].frequency >= r.frequency })
      IN  SubSeq(done, 1, k) \o << r >> \o SubSeq(done, k + 1, Len(done))

\* .replace(",", ";").replace('"', '""'), lines 103-104
RECURSIVE Escape(_)
Escape(t) ==
    IF t = << >> THEN << >>
    ELSE (CASE Head(t) = "," -> << ";" >>
            [] Head(t) = "\"" -> << "\"", "\"" >>
            [] OTHER -> << Head(t) >>) \o Escape(Tail(t))

\* line 105
WriteRow(r) ==
    IntToStr(r.frequency) \o << ",", "\"" >> \o Escape(r.word)
        \o << "\"", ",", "\"" >> \o Escape(r.translation) \o << "\"" >>

\* lines 95-105
WriteTable(ex) ==
    LET rows == SortByFrequency(ex)
    IN  [ k \in DOMAIN rows |-> WriteRow(rows[k]) ]

\* analyze_word_frequency, lines 40-107: the merged dict that is returned
\* and the lines that are written
analyze_word_frequency(content, table, wl) ==
    LET whitelist == load_whitelist(wl)
        word_counts == CountWords(SplitWs(Lower(content), 1, << >>),
                                  whitelist, << >>)
        existing_frequencies == MergeCounts(LoadRows(table, 1, << >>),
                                            word_counts)
    IN  [ merged |-> existing_frequencies,
          lines |-> WriteTable(existing_frequencies) ]

----------------------------------------------------------------------------
(* word_vocabulary_trainer.py: pure functions *)

\* translation.split('|')
RECURSIVE SplitBar(_, _, _)
SplitBar(t, i, cur) ==
    IF i > Len(t) THEN << cur >>
    ELSE IF t[i] = "|" THEN << cur >> \o SplitBar(t, i + 1, << >>)
    ELSE SplitBar(t, i + 1, Append(cur, t[i]))

\* check_translation, lines 60-64
check_translation(word, user_translation) ==
    LET parts == SplitBar(word.translation, 1, << >>)
    IN  \E k \in DOMAIN parts :
            Lower(Strip(parts[k])) = Lower(Strip(user_translation))

\* get_random_word, line 57: the rows that can be asked
available_words(words, whitelist) ==
    { k \in DOMAIN words : Lower(words[k].word) \notin whitelist }

\* line 148
WithoutWord(words, german_word) ==
    SelectSeq(words, LAMBDA w : w.word # german_word)

\* save_words, lines 40-47: the file after the call
save_words(file, words) == IF words # << >> THEN words ELSE file

\* the order of characters: digits, capitals, small letters
CharRank(c) ==
    LET order == Digits \o UpperCase \o LowerCase
    IN  IF \E i \in DOMAIN order : order[i] = c
        THEN CHOOSE i \in DOMAIN order : order[i] = c
        ELSE 0

\* a < b, character by character
WordLess(a, b) ==
    \E k \in 1..(Len(b)) :
        /\ \A i \in 1..(k - 1) : i <= Len(a) /\ a[i] = b[i]
        /\ \/ k = Len(a) + 1
           \/ k <= Len(a) /\ CharRank(a[k]) < CharRank(b[k])

\* sorted(self.whitelist)
RECURSIVE SortedWords(_)
SortedWords(ws) ==
    IF ws = {} THEN << >>
    ELSE LET least == CHOOSE w \in ws : \A v \in ws : ~ WordLess(v, w)
         IN  << least >> \o SortedWords(ws \ { least })

\* save_whitelist, lines 49-53
save_whitelist(whitelist) == SortedWords(whitelist)

----------------------------------------------------------------------------
(* split_with_prompt.chunk_text, lines 26-54 *)

\* int(max_chars * 0.6), line 50
Fill(max_chars) == (max_chars * 6) \div 10

\* lines 39-52: where the chunk that starts at index i ends
ChunkEnd(text, i, max_chars, prefer_word_boundary) ==
    LET n == Len(text)
        end == IF i + max_chars <= n THEN i + max_chars ELSE n
    IN  IF prefer_word_boundary /\ end < n
        THEN LET window == SubSeq(text, i + 1, end)
                 last_nl == rfind(window, "\n")
                 last_sp == rfind(window, " ")
                 candidate == Max(last_nl, last_sp)
             IN  IF candidate > 0 /\ candidate >= Fill(max_chars)
                 THEN i + candidate + 1
                 ELSE end
        ELSE end

\* a chunk that leaves out the separator it was cut at
Chunk_NoSeparator(text, i, end) ==
    IF IsSpace(text[end]) THEN SubSeq(text, i + 1, end - 1)
    ELSE SubSeq(text, i + 1, end)

\* line 53: text[i:end]
Chunk(text, i, end) == SubSeq(text, i + 1, end)

----------------------------------------------------------------------------
(* merge_words.py: pure functions *)

\* parse_int, lines 14-18
parse_int(value) ==
    LET r == ParseInt(Strip(value))
    IN  IF r.ok THEN r.val ELSE 0

\* lines 56-62: the translations of a row, split at '|' and stripped
Parts(raw_tr) ==
    LET ps == SplitBar(Strip(raw_tr), 1, << >>)
    IN  { Strip(ps[k]) : k \in DOMAIN ps } \ { << >> }

\* lines 49-68: the rows of a file folded into acc
RECURSIVE CollectRows(_, _)
CollectRows(rows, acc) ==
    IF rows = << >> THEN acc
    ELSE
      LET row == Head(rows)
          word == Strip(row.word)
      IN  IF word = << >> THEN CollectRows(Tail(rows), acc)
          ELSE
            LET bucket == IF HasKey(acc, word) THEN Get(acc, word)
                          ELSE [ word |-> word, frequency |-> 0,
                                 translation |-> {} ]
            IN  CollectRows(Tail(rows),
                    Put(acc, word,
                        bucket.frequency + parse_int(row.frequency),
                        bucket.translation \cup Parts(row.translation)))

\* lines 31-41 and 72-78: the file is passed over: a required column is
\* missing, or the file cannot be opened or read
Skipped(file) == file.kind # "ok"

\* collect_from_file, lines 23-78
collect_from_file(file, acc) ==
    IF Skipped(file) THEN acc ELSE CollectRows(file.rows, acc)

\* " | ".join(...)
RECURSIVE JoinBar(_)
JoinBar(ps) ==
    IF ps = << >> THEN << >>
    ELSE IF Len(ps) = 1 THEN Head(ps)
    ELSE Head(ps) \o << " ", "|", " " >> \o JoinBar(Tail(ps))

\* the sort key of line 86: (-freq, word)
Before(a, b) ==
    \/ a.frequency > b.frequency
    \/ a.frequency = b.frequency /\ WordLess(a.word, b.word)

RECURSIVE SortItems(_)
SortItems(items) ==
    IF items = {} THEN << >>
    ELSE LET first == CHOOSE a \in items : \A b \in items : ~ Before(b, a)
         IN  << first >> \o SortItems(items \ { first })

\* write_output, lines 80-92: the rows written under the header
write_output(acc) ==
    LET items == SortItems({ acc[k] : k \in DOMAIN acc })
    IN  [ k \in DOMAIN items |->
            [ frequency |-> IntToStr(items[k].frequency),
              word |-> items[k].word,
              translation |-> JoinBar(SortedWords(items[k].translation)) ] ]

----------------------------------------------------------------------------
(* ocr_to_vocab.main: the handler of KeyboardInterrupt, lines 397-422 *)

\* the text of the session file: every sentence on a line of its own
RECURSIVE SessionText(_)
SessionText(sentences) ==
    IF sentences = << >> THEN << >>
    ELSE Head(sentences) \o << "\n" >> \o SessionText(Tail(sentences))

\* a table that notes each word once, however often it occurs
RECURSIVE Counter_Once(_, _)
Counter_Once(words, counts) ==
    IF words = << >> THEN counts
    ELSE Counter_Once(Tail(words), Put(counts, Head(words), 1, << >>))

\* Counter(words), in order of first occurrence
RECURSIVE Counter(_, _)
Counter(words, counts) ==
    IF words = << >> THEN counts
    ELSE Counter(Tail(words),
                 Put(counts, Head(words),
                     (IF HasKey(counts, Head(words))
                      THEN Get(counts, Head(words)).frequency ELSE 0) + 1,
                     << >>))

\* lines 417-420: what is written for the translations of a word
TranslationsText(value) ==
    CASE value.type = "str" -> value.val
      [] value.type = "none" -> << "N", "o", "n", "e" >>
      [] OTHER -> << >>

\* lines 416-420: the rows written until a lookup raises
RECURSIVE WriteRows(_, _)
WriteRows(st, counts) ==
    IF counts = << >> THEN [ rows |-> << >>, raised |-> FALSE ]
    ELSE
      LET q == get_translations_for_word_exact(st, Head(counts).word)
      IN  IF q.raised THEN [ rows |-> << >>, raised |-> TRUE ]
          ELSE
            LET rest == WriteRows(st, Tail(counts))
            IN  [ rows |-> << [ Head(counts) EXCEPT
                                  !.translation = TranslationsText(q.value) ]
                           >> \o rest.rows,
                  raised |-> rest.raised ]

\* lines 404-422: the table built from the session file, most common
\* words first
FinalTable(st, sentences) ==
    WriteRows(st, SortByFrequency(
        Counter(extract_words_from_text(SessionText(sentences)), << >>)))

----------------------------------------------------------------------------
(* ocr_to_vocab.main: the polling loop, lines 353-396 *)

\* the characters of the generated frames
Alphabet == { "a", " ", ".", "?", "!" }

HelloWor == << "H","e","l","l","o"," ","w","o","r" >>

WorldHowAre == << "w","o","r","l","d","."," ","H","o","w"," ","a","r","e" >>

\* frames that span several lines of the captured region
BlankLines == << "\n", "\t", "\n" >>

TwoLines == << "a", ".", "\n", "\n", "a", "a" >>

\* the texts ocr_region may return for a frame
Screen ==
    StringsUpTo(Alphabet, MaxLen)
        \cup { HelloWor, WorldHowAre, BlankLines, TwoLines }

MergeIdle ==
    /\ mw_table0 = << >>
    /\ mw_table = << >>
    /\ mw_files = << >>
    /\ mw_present = {}
    /\ mw_next = 0
    /\ mw_acc = << >>
    /\ mw_merged = {}
    /\ mw_state = "idle"

RecorderIdle ==
    /\ rc_top_left = << >>
    /\ rc_bottom_right = << >>
    /\ rc_passes = 0
    /\ rc_session_text = << >>
    /\ rc_saved = << >>
    /\ rc_state = "idle"

TwitchIdle ==
    /\ tm_opened = {}
    /\ tm_token = "none"
    /\ tm_log = << >>

ChunkIdle ==
    /\ ck_text = << >>
    /\ ck_max = 1
    /\ ck_prefer = FALSE
    /\ ck_i = 0
    /\ ck_chunks = << >>
    /\ ck_state = "idle"

SessionIdle ==
    /\ phase = "idle"
    /\ output_csv = << >>
    /\ csv_writes = 0

TrainIdle ==
    /\ tr_words_file = << >>
    /\ tr_whitelist_file = << >>
    /\ tr_words = << >>
    /\ tr_whitelist = {}
    /\ tr_word = << >>
    /\ tr_learned = << >>
    /\ tr_state = "idle"

FreqIdle ==
    /\ wf_table0 = << >>
    /\ wf_table = << >>
    /\ wf_whitelist = [ readable |-> FALSE, lines |-> << >> ]
    /\ wf_texts = << >>
    /\ wf_merged = << >>

ResolveIdle ==
    /\ prog = "none"
    /\ rs_state = "idle"
    /\ csv_file = << >>
    /\ csv_saved = FALSE
    /\ whitelist_file = << >>
    /\ words_data = << >>
    /\ tw_i = 0
    /\ tw_word = << >>
    /\ tw_consulted = << >>
    /\ tw_skips = << >>
    /\ store = EmptyStore
    /\ dict_file = NoDict
    /\ gf_word = << >>
    /\ gf_result = PyNone
    /\ gf_consulted = << >>
    /\ ts_sentence = << >>
    /\ ts_result = << >>
    /\ pc_src = << >>
    /\ pc_dst = << >>
    /\ pc_result = << >>

SimIdle ==
    /\ text1 = << >>
    /\ text2 = << >>
    /\ similarity = Zero
    /\ sim_pc = "idle"

DedupIdle ==
    /\ seen_blocks = {}
    /\ one_file = TRUE
    /\ rd_calls = 0
    /\ rd_text = << >>
    /\ rd_result = << >>
    /\ rd_log = << >>

CleanIdle ==
    /\ cl_text = << >>
    /\ cl_result = << >>
    /\ cl_state = "idle"

LoopStart ==
    /\ last_text = << >>
    /\ seen_words = {}
    /\ all_words = << >>
    /\ seen_sentences = {}
    /\ carry = << >>
    /\ new_sentences = << >>
    /\ printed = << >>
    /\ session_file = << >>
    /\ branch = "start"
    /\ frames = << >>

Init ==
    /\ LoopStart /\ SimIdle /\ DedupIdle /\ CleanIdle /\ ResolveIdle
    /\ FreqIdle /\ TrainIdle /\ SessionIdle
    /\ ChunkIdle
    /\ TwitchIdle
    /\ RecorderIdle
    /\ MergeIdle

\* lines 359-362: an empty or whitespace-only frame is dropped
SkipBlank(text) ==
    /\ Len(frames) < MaxFrames
    /\ IsBlank(text)
    /\ frames' = Append(frames, text)
    /\ branch' = "blank"
    /\ new_sentences' = << >>
    /\ UNCHANGED << last_text, seen_words, all_words, seen_sentences, carry,
                    printed, session_file >>
    /\ UNCHANGED outside_loop

\* lines 364-366: a frame equal to the last processed one is dropped
SkipUnchanged(text) ==
    /\ Len(frames) < MaxFrames
    /\ ~ IsBlank(text)
    /\ IsUnchanged(text, last_text)
    /\ frames' = Append(frames, text)
    /\ branch' = "unchanged"
    /\ new_sentences' = << >>
    /\ UNCHANGED << last_text, seen_words, all_words, seen_sentences, carry,
                    printed, session_file >>
    /\ UNCHANGED outside_loop

\* lines 368-394: the frame is folded into the carry buffer and the newly
\* completed sentences are printed, appended to the transcript and remembered;
\* write_ok is whether the append to the session file succeeded
Ingest(text, write_ok) ==
    /\ Len(frames) < MaxFrames
    /\ ~ IsBlank(text)
    /\ ~ IsUnchanged(text, last_text)
    /\ LET cleaned == normalize_for_sentence_accum(text)
           batch == Batch(carry, cleaned)
           res == completed_sentences_and_remainder(batch)
           new == NewSentences(res.sentences, seen_sentences)
           words == extract_words_from_text(text)
       IN  /\ last_text' = text
           /\ carry' = res.remainder
           /\ new_sentences' = new
           /\ printed' = printed \o new
           /\ (new = << >> => write_ok)
           /\ session_file' = IF write_ok THEN session_file \o new
                                          ELSE session_file
           /\ seen_sentences' = seen_sentences \cup Range(new)
           /\ all_words' = all_words \o words
           /\ seen_words' = seen_words \cup Range(words)
    /\ frames' = Append(frames, text)
    /\ branch' = "processed"
    /\ UNCHANGED outside_loop

Next ==
    \E text \in Screen :
        \/ SkipBlank(text)
        \/ SkipUnchanged(text)
        \/ \E write_ok \in BOOLEAN : Ingest(text, write_ok)

Spec == Init /\ [][Next]_vars

----------------------------------------------------------------------------
(* word_clean.calculate_similarity applied to a pair of texts *)

SimAlphabet == { "a", "b", " " }

SimTexts == StringsUpTo(SimAlphabet, SimMaxLen)

InitSim ==
    /\ LoopStart
    /\ DedupIdle
    /\ CleanIdle
    /\ ResolveIdle
    /\ FreqIdle
    /\ TrainIdle
    /\ SessionIdle
    /\ text1 \in SimTexts
    /\ text2 \in SimTexts
    /\ similarity = Zero
    /\ sim_pc = "start"
    /\ ChunkIdle
    /\ TwitchIdle
    /\ RecorderIdle
    /\ MergeIdle

Compare ==
    /\ sim_pc = "start"
    /\ similarity' = calculate_similarity(text1, text2)
    /\ sim_pc' = "done"
    /\ UNCHANGED << text1, text2 >>
    /\ UNCHANGED outside_sim

NextSim == Compare

SpecSim == InitSim /\ [][NextSim]_vars

----------------------------------------------------------------------------
(* word_clean.main: remove_duplicates applied to the session files of a run *)

Speaker1 ==
    << "J","o","n","a","t","h","a","n"," ","S","p","i","l","l"," ","1"," ","A" >>

\* the lines a session file is made of: a speaker line, a content line, the
\* same content in other case, spacing and punctuation, another content line,
\* and an empty line
SessionLines ==
    { Speaker1,
      << "x", " ", "y" >>,
      << " ", "X", " ", " ", "y", ".", " " >>,
      << "z" >>,
      << >> }

\* the session files of at most n lines
SessionTexts(n) ==
    { JoinLines(ls) : ls \in UNION { [1..k -> SessionLines] : k \in 0..n } }

FileTexts == SessionTexts(MaxLines)

RunTexts == SessionTexts(RunMaxLines)

\* main, lines 216-226: one named file, or every session file of the
\* directory; seen_blocks is empty when the module is loaded
InitDedup ==
    /\ LoopStart
    /\ SimIdle
    /\ CleanIdle
    /\ ResolveIdle
    /\ FreqIdle
    /\ TrainIdle
    /\ SessionIdle
    /\ seen_blocks = {}
    /\ one_file \in BOOLEAN
    /\ rd_calls = 0
    /\ rd_text = << >>
    /\ rd_result = << >>
    /\ rd_log = << >>
    /\ ChunkIdle
    /\ TwitchIdle
    /\ RecorderIdle
    /\ MergeIdle

\* process_session step 1: remove_duplicates(content)
RemoveDuplicates(text) ==
    /\ rd_calls < (IF one_file THEN 1 ELSE MaxCalls)
    /\ LET r == remove_duplicates(text, seen_blocks)
       IN  /\ rd_result' = r.result
           /\ seen_blocks' = r.seen
           /\ rd_log' = r.log
    /\ rd_text' = text
    /\ rd_calls' = rd_calls + 1
    /\ UNCHANGED one_file
    /\ UNCHANGED outside_dedup

\* the session files still to be processed
Pending ==
    IF rd_calls >= (IF one_file THEN 1 ELSE MaxCalls) THEN {}
    ELSE IF one_file THEN FileTexts ELSE RunTexts

NextDedup == \E text \in Pending : RemoveDuplicates(text)

SpecDedup == InitDedup /\ [][NextDedup]_vars

----------------------------------------------------------------------------
(* word_clean.clean_incomplete_sentences applied to a text *)

CleanAlphabet == { "a", " ", ".", "," }

\* lines with speaker names, filler words, short and long last words
CleanLines1 ==
    { Speaker1,
      << "J","o","n","a","t","h","a","n"," ","S","p","i","l","l"," ","1"," ","a" >>,
      << "G","u","t","e","n"," "," ","T","a","g","\t","a","b" >>,
      << " ","G","u","t","e","n"," ","T","a","g","!" >>,
      << "G","u","t","e","n"," ","T","a","g","e" >>,
      << "d","a","s"," ","a","b" >>,
      << "U","n","d" >>,
      << "o","d","e","r","." >>,
      << "d","a","s","s","?" >>,
      << "J","a",","," ","a","b" >>,
      << "a","l","s","o"," ","a","l","s","o","." >>,
      << "a","b",";" >>,
      << "a","b",":" >> }

\* the texts handed to the function: one generated line, or two lines of
\* CleanLines1
CleanTexts ==
    StringsUpTo(CleanAlphabet, CleanMaxLen)
        \cup CleanLines1
        \cup { JoinLines(<< a, b >>) : a, b \in CleanLines1 }

InitClean ==
    /\ LoopStart
    /\ SimIdle
    /\ DedupIdle
    /\ ResolveIdle
    /\ FreqIdle
    /\ TrainIdle
    /\ SessionIdle
    /\ cl_text \in CleanTexts
    /\ cl_result = << >>
    /\ cl_state = "start"
    /\ ChunkIdle
    /\ TwitchIdle
    /\ RecorderIdle
    /\ MergeIdle

\* process_session step 2
Clean ==
    /\ cl_state = "start"
    /\ cl_result' = clean_incomplete_sentences(cl_text)
    /\ cl_state' = "done"
    /\ UNCHANGED cl_text
    /\ UNCHANGED outside_clean

NextClean == Clean

SpecClean == InitClean /\ [][NextClean]_vars

----------------------------------------------------------------------------
(* The resolvers: word_translate.translate_words, and get_first_translation, *)
(* translate_sentence and preserve_case of ocr_to_vocab.py                   *)

\* the words of the table, one of them quoted
TableWords == { << "u" >>, << "v" >>, << "\"", "w", "\"" >> }

TableTranslations == { << >>, << "t" >>, << "\"", "\"" >> }

Rows ==
    [ frequency : { 1 }, word : TableWords, translation : TableTranslations ]

\* the tables at CSV_PATH: at most MaxRows rows, no word twice
Tables ==
    { t \in UNION { [1..k -> Rows] : k \in 0..MaxRows } :
        \A i, j \in DOMAIN t : i # j => t[i].word # t[j].word }

GfAlphabet == { "a", "b", "A", "B" }

\* the words get_first_translation is asked for
GfWords == StringsUpTo(GfAlphabet, 2)

\* the sentences translate_sentence is given
Sentences ==
    StringsUpTo(GfAlphabet \cup { " " }, SentMaxLen)
        \cup { << "A", "B", ",", " ", "a", " ", "b", "a", "." >>, << "B", "a", "-", "a", "b", " ", "b", "b" >> }

CaseSources == StringsUpTo({ "a", "A", "-" }, CaseMaxLen) \ { << >> }

CaseTargets == StringsUpTo({ "x", "Y", " " }, CaseMaxLen)

TwIdle ==
    /\ csv_file = << >>
    /\ csv_saved = FALSE
    /\ whitelist_file = << >>
    /\ words_data = << >>
    /\ tw_i = 0
    /\ tw_word = << >>
    /\ tw_consulted = << >>
    /\ tw_skips = << >>

GfIdle ==
    /\ gf_word = << >>
    /\ gf_result = PyNone
    /\ gf_consulted = << >>

TsIdle ==
    /\ ts_sentence = << >>
    /\ ts_result = << >>

PcIdle ==
    /\ pc_src = << >>
    /\ pc_dst = << >>
    /\ pc_result = << >>

InitResolve ==
    /\ LoopStart
    /\ SimIdle
    /\ DedupIdle
    /\ CleanIdle
    /\ FreqIdle
    /\ TrainIdle
    /\ SessionIdle
    /\ rs_state = "start"
    /\ \/ /\ prog = "translate_words"
          /\ csv_file \in Tables
          /\ csv_saved = FALSE
          /\ whitelist_file = << >>
          /\ words_data = << >>
          /\ tw_i = 0
          /\ tw_word = << >>
          /\ tw_consulted = << >>
          /\ tw_skips = << >>
          /\ store = EmptyStore
          /\ dict_file = NoDict
          /\ GfIdle /\ TsIdle /\ PcIdle
       \/ /\ prog = "get_first_translation"
          /\ store \in Stores
          /\ dict_file \in Dicts
          /\ gf_word \in GfWords
          /\ gf_result = PyNone
          /\ gf_consulted = << >>
          /\ TwIdle /\ TsIdle /\ PcIdle
       \/ /\ prog = "translate_sentence"
          /\ store \in Stores
          /\ dict_file \in Dicts
          /\ ts_sentence \in Sentences
          /\ ts_result = << >>
          /\ TwIdle /\ GfIdle /\ PcIdle
       \/ /\ prog = "preserve_case"
          /\ pc_src \in CaseSources
          /\ pc_dst \in CaseTargets
          /\ pc_result = << >>
          /\ store = EmptyStore
          /\ dict_file = NoDict
          /\ TwIdle /\ GfIdle /\ TsIdle
    /\ ChunkIdle
    /\ TwitchIdle
    /\ RecorderIdle
    /\ MergeIdle

\* translate_words, lines 106-136: open the store, read the table, count
\* the rows lacking a translation; sqlite3.connect is outside the try
TwStart(connect_ok) ==
    /\ prog = "translate_words"
    /\ rs_state = "start"
    /\ IF ~ connect_ok
       THEN /\ rs_state' = "raised"
            /\ UNCHANGED words_data
       ELSE /\ words_data' = csv_file
            /\ rs_state' = IF \E k \in DOMAIN csv_file :
                                  LacksTranslation(csv_file[k])
                           THEN "loop" ELSE "done"
    /\ tw_i' = 0
    /\ UNCHANGED << prog, store, dict_file, csv_file, csv_saved,
                    whitelist_file, tw_word, tw_consulted, tw_skips,
                    gf_vars, ts_vars, pc_vars >>
    /\ UNCHANGED outside_resolve

\* lines 138-145: a row that already has a translation is passed over
TwKeep ==
    /\ prog = "translate_words"
    /\ rs_state = "loop"
    /\ tw_i < Len(words_data)
    /\ ~ LacksTranslation(words_data[tw_i + 1])
    /\ tw_i' = tw_i + 1
    /\ UNCHANGED << prog, rs_state, store, dict_file, csv_file, csv_saved,
                    whitelist_file, words_data, tw_word, tw_consulted,
                    tw_skips, gf_vars, ts_vars, pc_vars >>
    /\ UNCHANGED outside_resolve

\* lines 138-180: one row lacking a translation goes through the fallback
\* chain; wl_ok is whether the append to the whitelist file succeeded
TwStep(db, deepl, user, wl_ok) ==
    /\ prog = "translate_words"
    /\ rs_state = "loop"
    /\ tw_i < Len(words_data)
    /\ LacksTranslation(words_data[tw_i + 1])
    /\ LET row == words_data[tw_i + 1]
           word == StripQuotes(row.word)
           r == ResolveWord(db, deepl, user)
       IN  /\ tw_word' = word
           /\ tw_consulted' = r.consulted
           /\ IF r.skip
              THEN /\ whitelist_file' = IF wl_ok
                                        THEN Append(whitelist_file, word)
                                        ELSE whitelist_file
                   /\ words_data' = RemoveAt(words_data, tw_i)
                   /\ tw_skips' = Append(tw_skips,
                                         [ word |-> word, appended |-> wl_ok ])
                   /\ UNCHANGED tw_i
              ELSE /\ wl_ok
                   /\ words_data' =
                          IF Truthy(r.translation)
                          THEN [ words_data EXCEPT ![tw_i + 1].translation =
                                     r.translation.val ]
                          ELSE words_data
                   /\ tw_i' = tw_i + 1
                   /\ UNCHANGED << whitelist_file, tw_skips >>
    /\ UNCHANGED << prog, rs_state, store, dict_file, csv_file, csv_saved,
                    gf_vars, ts_vars, pc_vars >>
    /\ UNCHANGED outside_resolve

\* lines 182-184 and save_progress, lines 76-85: the table is rewritten;
\* a failed write is only reported
TwFinish(save_ok) ==
    /\ prog = "translate_words"
    /\ rs_state = "loop"
    /\ tw_i >= Len(words_data)
    /\ csv_file' = IF save_ok THEN words_data ELSE csv_file
    /\ csv_saved' = save_ok
    /\ rs_state' = "done"
    /\ UNCHANGED << prog, store, dict_file, whitelist_file, words_data, tw_i,
                    tw_word, tw_consulted, tw_skips, gf_vars, ts_vars,
                    pc_vars >>
    /\ UNCHANGED outside_resolve

GetFirstTranslation ==
    /\ prog = "get_first_translation"
    /\ rs_state = "start"
    /\ LET r == get_first_translation(store, dict_file, gf_word)
       IN  /\ gf_result' = r.value
           /\ gf_consulted' = r.consulted
           /\ rs_state' = IF r.raised THEN "raised" ELSE "done"
    /\ UNCHANGED << prog, store, dict_file, gf_word, tw_vars, ts_vars,
                    pc_vars >>
    /\ UNCHANGED outside_resolve

TranslateSentence ==
    /\ prog = "translate_sentence"
    /\ rs_state = "start"
    /\ LET r == translate_sentence(store, dict_file, ts_sentence)
       IN  /\ ts_result' = r.text
           /\ rs_state' = IF r.raised THEN "raised" ELSE "done"
    /\ UNCHANGED << prog, store, dict_file, ts_sentence, tw_vars, gf_vars,
                    pc_vars >>
    /\ UNCHANGED outside_resolve

PreserveCase ==
    /\ prog = "preserve_case"
    /\ rs_state = "start"
    /\ pc_result' = preserve_case(pc_src, pc_dst)
    /\ rs_state' = "done"
    /\ UNCHANGED << prog, store, dict_file, pc_src, pc_dst, tw_vars, gf_vars,
                    ts_vars >>
    /\ UNCHANGED outside_resolve

NextResolve ==
    \/ \E connect_ok \in BOOLEAN : TwStart(connect_ok)
    \/ TwKeep
    \/ \E db \in DbOutcomes, deepl \in DeeplOutcomes, user \in UserInputs,
          wl_ok \in BOOLEAN : TwStep(db, deepl, user, wl_ok)
    \/ \E save_ok \in BOOLEAN : TwFinish(save_ok)
    \/ GetFirstTranslation
    \/ TranslateSentence
    \/ PreserveCase

SpecResolve == InitResolve /\ [][NextResolve]_vars

----------------------------------------------------------------------------
(* word_translate.translate_words with its SIGINT handler *)

InitTranslate == InitResolve /\ prog = "translate_words"

\* signal_handler, lines 68-74, run between two passes of the loop, or
\* before the table is read, when global_words_data is still []: the
\* working table is saved if it has rows, then sys.exit(0)
TwSigint(save_ok) ==
    /\ prog = "translate_words"
    /\ rs_state \in { "start", "loop" }
    /\ LET global_words_data == IF rs_state = "start" THEN << >>
                                ELSE words_data
           written == global_words_data # << >> /\ save_ok
       IN  /\ (global_words_data = << >> => save_ok)
           /\ csv_file' = IF written THEN global_words_data ELSE csv_file
           /\ csv_saved' = written
    /\ rs_state' = "interrupted"
    /\ UNCHANGED << prog, store, dict_file, whitelist_file, words_data, tw_i,
                    tw_word, tw_consulted, tw_skips, gf_vars, ts_vars,
                    pc_vars >>
    /\ UNCHANGED outside_resolve

\* signal_handler run in the skip branch between add_to_whitelist (line 165)
\* and words_data.pop(i) (line 167)
TwSigintInSkip(db, deepl, user, wl_ok, save_ok) ==
    /\ prog = "translate_words"
    /\ rs_state = "loop"
    /\ tw_i < Len(words_data)
    /\ LacksTranslation(words_data[tw_i + 1])
    /\ LET word == StripQuotes(words_data[tw_i + 1].word)
           r == ResolveWord(db, deepl, user)
       IN  /\ r.skip
           /\ tw_word' = word
           /\ tw_consulted' = r.consulted
           /\ whitelist_file' = IF wl_ok THEN Append(whitelist_file, word)
                                ELSE whitelist_file
           /\ tw_skips' = Append(tw_skips,
                                 [ word |-> word, appended |-> wl_ok ])
    /\ csv_file' = IF save_ok THEN words_data ELSE csv_file
    /\ csv_saved' = save_ok
    /\ rs_state' = "interrupted"
    /\ UNCHANGED << prog, store, dict_file, words_data, tw_i, gf_vars,
                    ts_vars, pc_vars >>
    /\ UNCHANGED outside_resolve

NextTranslate ==
    \/ \E connect_ok \in BOOLEAN : TwStart(connect_ok)
    \/ TwKeep
    \/ \E db \in DbOutcomes, deepl \in DeeplOutcomes, user \in UserInputs,
          wl_ok \in BOOLEAN : TwStep(db, deepl, user, wl_ok)
    \/ \E save_ok \in BOOLEAN : TwFinish(save_ok)
    \/ \E save_ok \in BOOLEAN : TwSigint(save_ok)
    \/ \E db \in DbOutcomes, deepl \in DeeplOutcomes, user \in UserInputs,
          wl_ok \in BOOLEAN, save_ok \in BOOLEAN :
              TwSigintInSkip(db, deepl, user, wl_ok, save_ok)

\* every lookup and prompt returns: a step that can be taken is taken
SpecTranslate == InitTranslate /\ [][NextTranslate]_vars /\ WF_vars(NextTranslate)

----------------------------------------------------------------------------
(* word_frequency.main: analyze_word_frequency run on the cleaned files *)

\* rows as analyze_word_frequency and csv.DictWriter write them, a row with
\* an unparsable frequency, and translations holding ',' and '"'
TableLines ==
    { << "3", ",", "\"", "a", "b", "c", "\"", ",", "\"", "x", "\"" >>,
      << "2", ",", "\"", "a", "b", "d", "\"", ",", "\"", "\"" >>,
      << "2", ",", "a", "b", "e", ",", "y" >>,
      << "x", ",", "\"", "a", "b", "f", "\"", ",", "\"", "z", "\"" >>,
      << "1", ",", "\"", "a", "b", "g", "\"", ",", "\"", "p", ",", " ", "q", "\"" >>,
      << "1", ",", "\"", "a", "b", "h", "\"", ",", "\"", "r", "\"", "\"", "s", "\"" >> }

\* the tables before the first run: no word twice
TablesBefore ==
    { t \in UNION { [1..k -> TableLines] : k \in 0..MaxTableLines } :
        \A i, j \in DOMAIN t : i # j => t[i] # t[j] }

\* the words of an input file: in the table or new, in another case and
\* with punctuation attached, and too short to count
Tokens == { << "a", "b", "c" >>, << "A", "b", "z", "," >>, << "a", "b", "d" >>, << "a", "b" >> }

RECURSIVE JoinSpace(_)
JoinSpace(ws) ==
    IF ws = << >> THEN << >>
    ELSE IF Len(ws) = 1 THEN ws[1]
    ELSE ws[1] \o << " " >> \o JoinSpace(Tail(ws))

InputTexts ==
    { JoinSpace(ws) : ws \in UNION { [1..k -> Tokens] : k \in 0..MaxTokens } }

\* the whitelist file: missing, empty, or with words, a comment line and
\* surrounding blanks
WhitelistFiles ==
    { [ readable |-> FALSE, lines |-> << >> ],
      [ readable |-> TRUE, lines |-> << >> ],
      [ readable |-> TRUE, lines |-> << << "a", "b", "z" >> >> ],
      [ readable |-> TRUE, lines |-> << << " ", "A", "B", "C", " " >>, << "#", " ", "a", "b", "d" >> >> ] }

InitFreq ==
    /\ LoopStart
    /\ SimIdle
    /\ DedupIdle
    /\ CleanIdle
    /\ ResolveIdle
    /\ TrainIdle
    /\ SessionIdle
    /\ wf_table0 \in TablesBefore
    /\ wf_table = wf_table0
    /\ wf_whitelist \in WhitelistFiles
    /\ wf_texts = << >>
    /\ wf_merged = << >>
    /\ ChunkIdle
    /\ TwitchIdle
    /\ RecorderIdle
    /\ MergeIdle

\* main, lines 117-127: one more cleaned file is analysed
AnalyzeWordFrequency(content) ==
    /\ LET r == analyze_word_frequency(content, wf_table, wf_whitelist)
       IN  /\ wf_table' = r.lines
           /\ wf_merged' = r.merged
    /\ wf_texts' = Append(wf_texts, content)
    /\ UNCHANGED << wf_table0, wf_whitelist >>
    /\ UNCHANGED outside_freq

\* the cleaned files still to be analysed
PendingTexts == IF Len(wf_texts) >= MaxRuns THEN {} ELSE InputTexts

NextFreq == \E content \in PendingTexts : AnalyzeWordFrequency(content)

SpecFreq == InitFreq /\ [][NextFreq]_vars

----------------------------------------------------------------------------
(* word_vocabulary_trainer.main: a training session *)

TrainWords == { << "A", "b" >>, << "c", "d" >>, << "e", "f" >> }

TrainTranslations == { << "x", " ", "|", " ", "Y" >>, << >> }

TrainRows ==
    [ frequency : { << "1" >> }, word : TrainWords,
      translation : TrainTranslations ]

\* the tables at words_file: no word twice
TrainTables ==
    { t \in UNION { [1..k -> TrainRows] : k \in 0..MaxTrainRows } :
        \A i, j \in DOMAIN t : i # j => t[i].word # t[j].word }

\* the whitelist files: empty, or with one of the words of the table
TrainWhitelists == { << >>, << << "c", "d" >> >> }

\* what the learner types
TrainInputs == { << "x" >>, << " ", "y", " " >>, << "z" >>, << >>, << "h", "i", "n", "t" >>, << "q", "u", "i", "t" >> }

\* __init__ and load_data, lines 19-38
InitTrain ==
    /\ LoopStart
    /\ SimIdle
    /\ DedupIdle
    /\ CleanIdle
    /\ ResolveIdle
    /\ FreqIdle
    /\ SessionIdle
    /\ tr_words_file \in TrainTables
    /\ tr_whitelist_file \in TrainWhitelists
    /\ tr_words = tr_words_file
    /\ tr_whitelist =
           { Lower(Strip(tr_whitelist_file[k])) :
               k \in { i \in DOMAIN tr_whitelist_file :
                         Strip(tr_whitelist_file[i]) # << >> } }
    /\ tr_word = << >>
    /\ tr_learned = << >>
    /\ tr_state = "running"
    /\ ChunkIdle
    /\ TwitchIdle
    /\ RecorderIdle
    /\ MergeIdle

\* lines 122-129: the next word is drawn, or the session ends because no
\* word is left
GetRandomWord ==
    /\ tr_state = "running"
    /\ tr_word = << >>
    /\ LET available == available_words(tr_words, tr_whitelist)
       IN  IF available = {}
           THEN /\ tr_state' = "ended"
                /\ UNCHANGED tr_word
           ELSE /\ \E k \in available : tr_word' = << tr_words[k] >>
                /\ UNCHANGED tr_state
    /\ UNCHANGED << tr_words_file, tr_whitelist_file, tr_words, tr_whitelist,
                    tr_learned >>
    /\ UNCHANGED outside_train

\* lines 133-165: the learner's input is read and judged; the translation
\* store that add_translation_to_db updates is not part of the state, and
\* its errors are caught at lines 106-107
Answer(input) ==
    /\ tr_state = "running"
    /\ tr_word # << >>
    /\ LET word == tr_word[1]
           german_word == word.word
           user_input == Strip(input)
       IN  IF Lower(user_input) \in { << "q", "u", "i", "t" >>, << "e", "x", "i", "t" >> }
           THEN /\ tr_state' = "ended"
                /\ UNCHANGED << tr_words_file, tr_whitelist_file, tr_words,
                                tr_whitelist, tr_word, tr_learned >>
           ELSE IF Lower(user_input) = << "h", "i", "n", "t" >>
           THEN UNCHANGED << tr_words_file, tr_whitelist_file, tr_words,
                             tr_whitelist, tr_word, tr_learned, tr_state >>
           ELSE IF check_translation(word, user_input)
           THEN /\ tr_words' = WithoutWord(tr_words, german_word)
                /\ tr_whitelist' = tr_whitelist \cup { Lower(german_word) }
                /\ tr_learned' = Append(tr_learned, german_word)
                /\ tr_words_file' = save_words(tr_words_file, tr_words')
                /\ tr_whitelist_file' = save_whitelist(tr_whitelist')
                /\ tr_word' = << >>
                /\ UNCHANGED tr_state
           ELSE /\ tr_word' = << >>
                /\ UNCHANGED << tr_words_file, tr_whitelist_file, tr_words,
                                tr_whitelist, tr_learned, tr_state >>
    /\ UNCHANGED outside_train

\* lines 167-172: Ctrl+C or end of input at the prompt
EndOfInput ==
    /\ tr_state = "running"
    /\ tr_word # << >>
    /\ tr_state' = "interrupted"
    /\ UNCHANGED << tr_words_file, tr_whitelist_file, tr_words, tr_whitelist,
                    tr_word, tr_learned >>
    /\ UNCHANGED outside_train

NextTrain ==
    \/ GetRandomWord
    \/ \E input \in TrainInputs : Answer(input)
    \/ EndOfInput

SpecTrain == InitTrain /\ [][NextTrain]_vars

----------------------------------------------------------------------------
(* ocr_to_vocab.main as a whole: the polling loop, the exceptions that leave
   it and the handler of KeyboardInterrupt, lines 353-422 *)

\* everything but the loop and the end of the session
outside_main ==
    << sim_vars, dedup_vars, clean_vars, resolve_vars, freq_vars, train_vars, chunk_vars, twitch_vars, recorder_vars,
       merge_vars >>

AbAb == << "A", "b", " ", "a", "b", "." >>

BaAb == << "b", "a", "?", " ", "a", "b" >>

NoWord == << "a", "." >>

\* the texts ocr_region returns during a session
SessionFrames == { HelloWor, WorldHowAre, BlankLines, AbAb, BaAb, NoWord }

\* the store at DB_PATH and the flat dictionary do not change during a
\* session
InitSession ==
    /\ LoopStart /\ SimIdle /\ DedupIdle /\ CleanIdle /\ FreqIdle /\ TrainIdle
    /\ prog = "none"
    /\ rs_state = "idle"
    /\ TwIdle /\ GfIdle /\ TsIdle /\ PcIdle
    /\ store \in Stores
    /\ dict_file \in Dicts
    /\ phase = "running"
    /\ output_csv = << >>
    /\ csv_writes = 0
    /\ ChunkIdle
    /\ TwitchIdle
    /\ RecorderIdle
    /\ MergeIdle

\* lines 370-373: the sentences a frame completes that were not seen before
NewOf(text) ==
    NewSentences(
        completed_sentences_and_remainder(
            Batch(carry, normalize_for_sentence_accum(text))).sentences,
        seen_sentences)

\* line 373: the remainder a frame leaves in the carry buffer
CarryOf(text) ==
    completed_sentences_and_remainder(
        Batch(carry, normalize_for_sentence_accum(text))).remainder

\* line 377: translate_sentence raises for the sentence
Raises(sentence) == translate_sentence(store, dict_file, sentence).raised

\* the first new sentence whose translation raises, 0 when there is none
RECURSIVE FirstRaising(_, _)
FirstRaising(new, k) ==
    IF k > Len(new) THEN 0
    ELSE IF Raises(new[k]) THEN k
    ELSE FirstRaising(new, k + 1)

\* lines 358-396: one pass of the loop that reaches time.sleep
Poll(text) ==
    /\ phase = "running"
    /\ \/ SkipBlank(text)
       \/ SkipUnchanged(text)
       \/ /\ FirstRaising(NewOf(text), 1) = 0
          /\ \E write_ok \in BOOLEAN : Ingest(text, write_ok)

\* line 377: translate_sentence raises inside the loop; no handler of main
\* catches it, the sentences before it were printed, nothing is appended and
\* the handler of lines 397-422 does not run
LookupRaises(text) ==
    /\ phase = "running"
    /\ Len(frames) < MaxFrames
    /\ ~ IsBlank(text)
    /\ ~ IsUnchanged(text, last_text)
    /\ LET new == NewOf(text)
           k == FirstRaising(new, 1)
       IN  /\ k > 0
           /\ last_text' = text
           /\ carry' = CarryOf(text)
           /\ new_sentences' = new
           /\ printed' = printed \o SubSeq(new, 1, k - 1)
    /\ frames' = Append(frames, text)
    /\ branch' = "raised"
    /\ phase' = "aborted"
    /\ UNCHANGED << seen_words, all_words, seen_sentences, session_file >>
    /\ UNCHANGED << output_csv, csv_writes >>
    /\ UNCHANGED outside_main

\* line 359: ocr_region raises (no screenshot, no tesseract); lines 94-103
\* catch nothing and neither does main
OcrRaises ==
    /\ phase = "running"
    /\ phase' = "aborted"
    /\ UNCHANGED << output_csv, csv_writes >>
    /\ UNCHANGED outside_session

\* lines 397-422: the table of the run, written from the session file
WriteTableOfRun(transcript) ==
    /\ phase' = "stopped"
    /\ output_csv' = FinalTable(store, transcript).rows
    /\ csv_writes' = csv_writes + 1

\* KeyboardInterrupt between two frames (during time.sleep or ocr_region)
Interrupt ==
    /\ phase = "running"
    /\ WriteTableOfRun(session_file)
    /\ UNCHANGED outside_session

\* KeyboardInterrupt while a frame is being processed: during the
\* translations of lines 376-378 after k sentences were printed, or during
\* the append of lines 380-383 after k sentences were written
InterruptDuring(text, stage, k) ==
    /\ phase = "running"
    /\ Len(frames) < MaxFrames
    /\ ~ IsBlank(text)
    /\ ~ IsUnchanged(text, last_text)
    /\ LET new == NewOf(text)
           raising == FirstRaising(new, 1)
       IN  /\ new # << >>
           /\ k \in 0 .. Len(new)
           /\ stage = "translating" => (k < Len(new) /\ (raising = 0 \/ k < raising))
           /\ stage = "appending" => raising = 0
           /\ last_text' = text
           /\ carry' = CarryOf(text)
           /\ new_sentences' = new
           /\ printed' = printed \o (IF stage = "translating"
                                     THEN SubSeq(new, 1, k) ELSE new)
           /\ session_file' = session_file \o (IF stage = "appending"
                                               THEN SubSeq(new, 1, k)
                                               ELSE << >>)
           /\ WriteTableOfRun(session_file')
    /\ frames' = Append(frames, text)
    /\ branch' = "interrupted"
    /\ UNCHANGED << seen_words, all_words, seen_sentences >>
    /\ UNCHANGED outside_main

NextSession ==
    \/ \E text \in SessionFrames : Poll(text)
    \/ \E text \in SessionFrames : LookupRaises(text)
    \/ OcrRaises
    \/ Interrupt
    \/ \E text \in SessionFrames, stage \in { "translating", "appending" },
          k \in 0 .. MaxNew : InterruptDuring(text, stage, k)

SpecSession == InitSession /\ [][NextSession]_vars

----------------------------------------------------------------------------
(* ocr_to_vocab.main from the prompt for the region on, lines 345-422.
   phase is "prompting" while prompt_region of line 345 runs: session_file
   and output_csv are bound (lines 318-319), the local overlay is not yet
   (line 346). "crashed" is the phase after the handler of line 397 itself
   raised. *)

InitStartup ==
    /\ LoopStart /\ SimIdle /\ DedupIdle /\ CleanIdle /\ FreqIdle /\ TrainIdle
    /\ prog = "none"
    /\ rs_state = "idle"
    /\ TwIdle /\ GfIdle /\ TsIdle /\ PcIdle
    /\ ChunkIdle /\ TwitchIdle /\ RecorderIdle /\ MergeIdle
    /\ store \in Stores
    /\ dict_file \in Dicts
    /\ phase = "prompting"
    /\ output_csv = << >>
    /\ csv_writes = 0

\* lines 345-357: prompt_region returned a region, overlay is bound and the
\* locals of the loop are set
PromptDone ==
    /\ phase = "prompting"
    /\ phase' = "running"
    /\ UNCHANGED << output_csv, csv_writes >>
    /\ UNCHANGED outside_session

\* prompt_region, lines 64-65: the region is too small and ValueError
\* leaves main
PromptRaises ==
    /\ phase = "prompting"
    /\ phase' = "aborted"
    /\ UNCHANGED << output_csv, csv_writes >>
    /\ UNCHANGED outside_session

\* KeyboardInterrupt during input() of lines 52 or 57: the handler of
\* line 397 prints and evaluates `overlay` at line 399, which is unbound:
\* UnboundLocalError leaves main before line 404
InterruptPrompt ==
    /\ phase = "prompting"
    /\ phase' = "crashed"
    /\ UNCHANGED << output_csv, csv_writes >>
    /\ UNCHANGED outside_session

NextStartup ==
    \/ PromptDone
    \/ PromptRaises
    \/ InterruptPrompt
    \/ NextSession

SpecStartup == InitStartup /\ [][NextStartup]_vars

----------------------------------------------------------------------------
(* split_with_prompt.chunk_text run to its end *)

ChunkAlphabet == { "a", " ", "\n" }

ChunkTexts == StringsUpTo(ChunkAlphabet, ChunkMaxLen)

InitChunk ==
    /\ LoopStart /\ SimIdle /\ DedupIdle /\ CleanIdle /\ ResolveIdle
    /\ FreqIdle /\ TrainIdle /\ SessionIdle
    /\ ck_text \in ChunkTexts
    /\ ck_max \in 1 .. MaxChars
    /\ ck_prefer \in BOOLEAN
    /\ ck_i = 0
    /\ ck_chunks = << >>
    /\ ck_state = "run"
    /\ TwitchIdle
    /\ RecorderIdle
    /\ MergeIdle

\* lines 38-54: one pass of the while loop yields one chunk
Yield ==
    /\ ck_state = "run"
    /\ ck_i < Len(ck_text)
    /\ LET end == ChunkEnd(ck_text, ck_i, ck_max, ck_prefer)
       IN  /\ ck_chunks' = Append(ck_chunks, Chunk(ck_text, ck_i, end))
           /\ ck_i' = end
    /\ UNCHANGED << ck_text, ck_max, ck_prefer, ck_state >>
    /\ UNCHANGED outside_chunk

\* line 38: the loop ends when i reaches len(text)
ChunksDone ==
    /\ ck_state = "run"
    /\ ck_i >= Len(ck_text)
    /\ ck_state' = "done"
    /\ UNCHANGED << ck_text, ck_max, ck_prefer, ck_i, ck_chunks >>
    /\ UNCHANGED outside_chunk

NextChunk == Yield \/ ChunksDone

\* the consumer (write_chunks_with_prompt) asks for chunks until there are
\* none
SpecChunk == InitChunk /\ [][NextChunk]_vars /\ WF_vars(NextChunk)

----------------------------------------------------------------------------
(* twitch_monitor.main: the polling loop, lines 76-115 *)

\* the channels named in USER_LOGINS
Channels == { "x", "y" }

\* the orders in which a for loop may go through a set
Orders(set) ==
    { q \in UNION { [1..n -> set] : n \in { Cardinality(set) } } :
          \A i, j \in DOMAIN q : q[i] = q[j] => i = j }

\* a monitor that forgets no channel
Ended_None(opened, live_names) == {}

\* line 105: the channels that went offline
Ended(opened, live_names) == opened \ live_names

InitTwitch ==
    /\ LoopStart /\ SimIdle /\ DedupIdle /\ CleanIdle /\ ResolveIdle
    /\ FreqIdle /\ TrainIdle /\ SessionIdle /\ ChunkIdle
    /\ tm_opened = {}
    /\ tm_token = "initial"
    /\ tm_log = << >>
    /\ RecorderIdle
    /\ MergeIdle

\* lines 96-109: the poll answered 200 and every page was opened; pages is
\* the order in which the pages of the newly live channels were opened
PollOk(live_names, pages) ==
    /\ Len(tm_log) < MaxPolls
    /\ pages \in Orders(live_names \ tm_opened)
    /\ LET opened1 == tm_opened \cup Range(pages)
           ended == Ended(opened1, live_names)
       IN  tm_opened' = opened1 \ ended
    /\ tm_log' = Append(tm_log, [ kind |-> "ok", live |-> live_names,
                                  pages |-> pages ])
    /\ UNCHANGED tm_token
    /\ UNCHANGED outside_twitch

\* lines 84-94: the poll answered another status; on 401 the token is
\* refreshed, and a failing refresh is caught at line 111
PollNot200(status, refresh_ok) ==
    /\ Len(tm_log) < MaxPolls
    /\ status # 401 => refresh_ok
    /\ tm_token' = IF status = 401 /\ refresh_ok THEN "refreshed"
                   ELSE tm_token
    /\ tm_log' = Append(tm_log, [ kind |-> "not200", live |-> {},
                                  pages |-> << >> ])
    /\ UNCHANGED tm_opened
    /\ UNCHANGED outside_twitch

\* lines 111-112: the request, the decoding of the answer or subprocess.run
\* raised after the pages of some of the newly live channels were opened
PollRaises(live_names, pages) ==
    /\ Len(tm_log) < MaxPolls
    /\ \E done \in SUBSET (live_names \ tm_opened) :
           /\ done # live_names \ tm_opened \/ done = {}
           /\ pages \in Orders(done)
    /\ tm_opened' = tm_opened \cup Range(pages)
    /\ tm_log' = Append(tm_log, [ kind |-> "raised", live |-> live_names,
                                  pages |-> pages ])
    /\ UNCHANGED tm_token
    /\ UNCHANGED outside_twitch

PageOrders == UNION { Orders(set) : set \in SUBSET Channels }

NextTwitch ==
    \/ \E live_names \in SUBSET Channels, pages \in PageOrders :
           PollOk(live_names, pages)
    \/ \E status \in { 401, 500 }, refresh_ok \in BOOLEAN :
           PollNot200(status, refresh_ok)
    \/ \E live_names \in SUBSET Channels, pages \in PageOrders :
           PollRaises(live_names, pages)

SpecTwitch == InitTwitch /\ [][NextTwitch]_vars

----------------------------------------------------------------------------
(* ocr_recorder.OCRRecorder.run: setup and recording loop *)

\* the positions pyautogui.position() may report
Positions == (0 .. MaxCoord) \X (0 .. MaxCoord)

\* the texts extract_text_from_image may return, stripped
RecordedTexts == { << >>, << "a" >> }

InitRecorder ==
    /\ LoopStart /\ SimIdle /\ DedupIdle /\ CleanIdle /\ ResolveIdle
    /\ FreqIdle /\ TrainIdle /\ SessionIdle /\ ChunkIdle /\ TwitchIdle
    /\ rc_top_left = << >>
    /\ rc_bottom_right = << >>
    /\ rc_passes = 0
    /\ rc_session_text = << >>
    /\ rc_saved = << >>
    /\ rc_state = "setup"
    /\ MergeIdle

\* capture_screen_area, lines 60-76: whether a screenshot is taken
Captures(top_left, bottom_right) ==
    IF top_left = << >> \/ bottom_right = << >> THEN FALSE
    ELSE LET width == bottom_right[1] - top_left[1]
             height == bottom_right[2] - top_left[2]
         IN  ~ (width <= 0 \/ height <= 0)

\* run, lines 155-162, up to the start of record_screen: the two corners
\* are taken as they are and recording starts
SetCaptureArea(top_left, bottom_right) ==
    /\ rc_state = "setup"
    /\ rc_top_left' = top_left
    /\ rc_bottom_right' = bottom_right
    /\ rc_session_text' = << >>
    /\ rc_state' = "recording"
    /\ UNCHANGED << rc_passes, rc_saved >>
    /\ UNCHANGED outside_recorder

\* record_screen, lines 112-122: one pass of the loop
RecordPass(text) ==
    /\ rc_state = "recording"
    /\ rc_passes < MaxPasses
    /\ rc_passes' = rc_passes + 1
    /\ rc_session_text' =
           IF Captures(rc_top_left, rc_bottom_right) /\ text # << >>
           THEN Append(rc_session_text, text)
           ELSE rc_session_text
    /\ UNCHANGED << rc_top_left, rc_bottom_right, rc_saved, rc_state >>
    /\ UNCHANGED outside_recorder

\* lines 124-128 and save_session: KeyboardInterrupt ends the recording and
\* the session is saved when it has text
StopRecording ==
    /\ rc_state = "recording"
    /\ rc_state' = "stopped"
    /\ rc_saved' = rc_session_text
    /\ UNCHANGED << rc_top_left, rc_bottom_right, rc_passes,
                    rc_session_text >>
    /\ UNCHANGED outside_recorder

NextRecorder ==
    \/ \E top_left, bottom_right \in Positions :
           SetCaptureArea(top_left, bottom_right)
    \/ \E text \in RecordedTexts : RecordPass(text)
    \/ StopRecording

SpecRecorder == InitRecorder /\ [][NextRecorder]_vars

----------------------------------------------------------------------------
(* merge_words.main, lines 94-150, run with its default arguments: the
   pattern words_*.csv does not match the output file words.csv *)

Row(frequency, word, translation) ==
    [ frequency |-> frequency, word |-> word, translation |-> translation ]

\* the files a directory can hold: kind is "ok" for a file with the three
\* columns, "nocolumns" for one lacking a required column, "unreadable"
\* for one whose open raises
MergeFiles ==
    { [ kind |-> "ok",
        rows |-> << Row(<< "2" >>, << "x" >>, << "y" >>),
                    Row(<< "1" >>, << "z" >>, << >>) >> ],
      [ kind |-> "ok",
        rows |-> << Row(<< "1" >>, << "x" >>, << "z", " ", "|", " ", "y" >>),
                    Row(<< "1" >>, << " " >>, << "z" >>) >> ],
      [ kind |-> "ok",
        rows |-> << Row(<< "q" >>, << "y" >>, << "x", "|" >>) >> ],
      [ kind |-> "nocolumns",
        rows |-> << Row(<< "3" >>, << "y" >>, << "x" >>) >> ],
      [ kind |-> "unreadable",
        rows |-> << Row(<< "3" >>, << "y" >>, << "x" >>) >> ] }

\* what words.csv can hold before the run
MergeTables ==
    { << >>,
      << Row(<< "3" >>, << "z" >>, << "x" >>) >>,
      << Row(<< "2" >>, << "x" >>, << "y" >>),
         Row(<< "1" >>, << "y" >>, << >>) >> }

InitMerge ==
    /\ LoopStart /\ SimIdle /\ DedupIdle /\ CleanIdle /\ ResolveIdle
    /\ FreqIdle /\ TrainIdle /\ SessionIdle /\ ChunkIdle /\ TwitchIdle
    /\ RecorderIdle
    /\ mw_table0 \in MergeTables
    /\ mw_table = mw_table0
    /\ mw_files \in { fs \in UNION { [ 1..n -> MergeFiles ] : n \in 0..MaxFiles } :
                        \A i, j \in DOMAIN fs : i # j => fs[i] # fs[j] }
    /\ mw_present = DOMAIN mw_files
    /\ mw_next = 0
    /\ mw_acc = << >>
    /\ mw_merged = {}
    /\ mw_state = "start"

\* lines 110-112: glob found nothing
NoFiles ==
    /\ mw_state = "start"
    /\ mw_files = << >>
    /\ mw_state' = "exit"
    /\ UNCHANGED << mw_table0, mw_table, mw_files, mw_present, mw_next,
                    mw_acc, mw_merged >>
    /\ UNCHANGED outside_merge

\* lines 122-132: one turn of the loop over files
CollectFromFile ==
    /\ mw_state \in { "start", "collect" }
    /\ mw_next < Len(mw_files)
    /\ LET file == mw_files[mw_next + 1]
       IN  /\ mw_acc' = collect_from_file(file, mw_acc)
           /\ mw_merged' = IF Skipped(file) THEN mw_merged
                           ELSE mw_merged \cup { mw_next + 1 }
    /\ mw_next' = mw_next + 1
    /\ mw_state' = "collect"
    /\ UNCHANGED << mw_table0, mw_table, mw_files, mw_present >>
    /\ UNCHANGED outside_merge

\* lines 134-135: words.csv is opened with "w" and written from acc
WriteOutput ==
    /\ mw_state = "collect"
    /\ mw_next = Len(mw_files)
    /\ mw_table' = write_output(mw_acc)
    /\ mw_state' = "written"
    /\ UNCHANGED << mw_table0, mw_files, mw_present, mw_next, mw_acc,
                    mw_merged >>
    /\ UNCHANGED outside_merge

\* lines 137-150: os.remove of every file found; the files of failed are
\* those whose removal raised
RemoveInputs(failed) ==
    /\ mw_state = "written"
    /\ mw_present' = failed
    /\ mw_state' = "done"
    /\ UNCHANGED << mw_table0, mw_table, mw_files, mw_next, mw_acc,
                    mw_merged >>
    /\ UNCHANGED outside_merge

NextMerge ==
    \/ NoFiles
    \/ CollectFromFile
    \/ WriteOutput
    \/ \E failed \in SUBSET mw_present : RemoveInputs(failed)

SpecMerge == InitMerge /\ [][NextMerge]_vars

----------------------------------------------------------------------------
(* Properties of the polling loop *)

Last(q) == q[Len(q)]

IsSuffix(t, s) ==
    Len(t) <= Len(s) /\ SubSeq(s, Len(s) - Len(t) + 1, Len(s)) = t

NoDuplicates(q) == \A i, j \in DOMAIN q : q[i] = q[j] => i = j

\* a frame was read in this step
FrameRead == Len(frames') = Len(frames) + 1

\* the frame is empty or holds whitespace only
WhitespaceOnly(t) == \A i \in DOMAIN t : t[i] \in { " ", "\n", "\t", "\r" }

\* the frame holds a chunk terminator
HasTerminator(t) == \E i \in DOMAIN t : t[i] \in { ".", "?" }

\* the sentences a text yields when ingested as one frame from a fresh state
OneShot(t) ==
    completed_sentences_and_remainder(normalize_for_sentence_accum(t)).sentences

\* the frames glued end to end, and joined by single spaces
RECURSIVE Concat(_)
Concat(fs) == IF fs = << >> THEN << >> ELSE Head(fs) \o Concat(Tail(fs))

RECURSIVE Joined(_)
Joined(fs) ==
    IF fs = << >> THEN << >> ELSE Head(fs) \o << " " >> \o Joined(Tail(fs))

HelloWorld == << "H","e","l","l","o"," ","w","o","r","l","d","." >>

HelloWorWorld ==
    << "H","e","l","l","o"," ","w","o","r"," ","w","o","r","l","d","." >>

HowAre == << "H","o","w"," ","a","r","e" >>

\* C1 (as claimed): from a fresh state, the frames "Hello wor" and
\* "world. How are" emit exactly the sentence "Hello world." and leave the
\* carry buffer "How are".
C1_HelloWorld ==
    frames = << HelloWor, WorldHowAre >>
        => printed = << HelloWorld >> /\ carry = HowAre

\* C1 (amended): from a fresh state, the frames "Hello wor" and
\* "world. How are" emit exactly the sentence "Hello wor world." (the carry
\* buffer and the frame are joined by a space) and leave the carry buffer
\* "How are".
C1_HelloWorWorld ==
    frames = << HelloWor, WorldHowAre >>
        => /\ printed = << HelloWorWorld >>
           /\ new_sentences = << HelloWorWorld >>
           /\ carry = HowAre

C1_Witness ==
    frames = << HelloWor, WorldHowAre >> /\ branch = "processed"

\* C2 (as claimed): the set of sentences emitted frame by frame equals the
\* set emitted when the concatenation of all frames (glued, or joined by
\* spaces) is ingested as one frame from a fresh state.
C2_SameAsOneShot ==
    \/ Range(printed) = Range(OneShot(Concat(frames)))
    \/ Range(printed) = Range(OneShot(Joined(frames)))

\* the frames that are not blank, in order
NonBlank(fs) == SelectSeq(fs, LAMBDA f : ~ WhitespaceOnly(f))

\* no frame repeats the frame processed before it
NoneUnchanged(fs) ==
    LET nb == NonBlank(fs)
    IN  \A i \in 1..(Len(nb) - 1) : nb[i] # nb[i + 1]

\* the last '.' or '?' of the text, if any, ends it or is followed by
\* whitespace
LastTerminatorSpaced(t) ==
    \A i \in DOMAIN t :
        (t[i] \in { ".", "?" } /\ ~ HasTerminator(SubSeq(t, i + 1, Len(t))))
            => (i = Len(t) \/ IsSpace(t[i + 1]))

\* C2 (amended): when no frame is skipped as unchanged and the last '.' or
\* '?' of every frame ends the frame or is followed by whitespace, the set of
\* sentences emitted frame by frame equals the set emitted when the frames,
\* joined by single spaces, are ingested as one frame from a fresh state.
C2_SameAsOneShotJoined ==
    (/\ NoneUnchanged(frames)
     /\ \A i \in DOMAIN frames : LastTerminatorSpaced(frames[i]))
        => Range(printed) = Range(OneShot(Joined(frames)))

\* two frames were processed, the first left a carry that the second
\* completed, and two different sentences were emitted
C2_Witness ==
    /\ Len(frames) = 2
    /\ NoneUnchanged(frames)
    /\ \A i \in DOMAIN frames : LastTerminatorSpaced(frames[i])
    /\ HasTerminator(frames[1])
    /\ ~ HasTerminator(<< Last(frames[1]) >>)
    /\ ~ WhitespaceOnly(<< Last(frames[1]) >>)
    /\ Cardinality(Range(printed)) = 2

\* C3: no sentence text is printed, or appended to the session transcript,
\* more than once.
C3_EmittedOnce == NoDuplicates(printed) /\ NoDuplicates(session_file)

\* the sentences the latest frame yields on its own
OwnSentences == OneShot(last_text)

\* the seen-set as it was before the latest frame
SeenBefore == seen_sentences \ Range(new_sentences)

\* C4: when the latest frame repeats a sentence that was already emitted, no
\* sentence emitted for the frame is that sentence again, be it alone or
\* glued behind the carry buffer.
C4_RepeatSuppressed ==
    (branch = "processed" /\ OwnSentences # << >>
                          /\ Head(OwnSentences) \in SeenBefore)
        => \A j \in DOMAIN new_sentences :
              /\ new_sentences[j] # Head(OwnSentences)
              /\ new_sentences[j] \in Range(OwnSentences)
                    \/ ~ IsSuffix(<< " " >> \o Head(OwnSentences),
                                  new_sentences[j])

\* C5 (as claimed): the carry buffer is a suffix of the normalized text of
\* the latest ingested frame.
C5_SuffixOfFrame ==
    IsSuffix(carry, normalize_for_sentence_accum(last_text))

\* a frame was read in this step and was neither blank nor unchanged
FrameProcessed ==
    /\ FrameRead
    /\ ~ WhitespaceOnly(Last(frames'))
    /\ Last(frames') # last_text

\* the carry buffer followed by the normalized frame, a space between them
CarryThenFrame(c, t) ==
    IF c = << >> THEN normalize_for_sentence_accum(t)
    ELSE c \o << " " >> \o normalize_for_sentence_accum(t)

\* C5 (amended): after every ingest the carry buffer is a suffix of the
\* previous carry buffer joined by a space to the normalized frame; it is a
\* suffix of the normalized frame alone when the frame holds a '.' or '?' or
\* the previous carry buffer was empty.
C5_SuffixOfBatch ==
    [][ FrameProcessed =>
            /\ IsSuffix(carry', CarryThenFrame(carry, Last(frames')))
            /\ (carry = << >> \/ HasTerminator(Last(frames')))
                  => IsSuffix(carry',
                              normalize_for_sentence_accum(Last(frames'))) ]_vars

\* a frame with a terminator and trailing text arrived on a non-empty carry
C5_Witness ==
    /\ Len(frames) = 2
    /\ branch = "processed"
    /\ HasTerminator(last_text)
    /\ carry # << >>
    /\ ~ HasTerminator(frames[1])
    /\ ~ WhitespaceOnly(frames[1])

\* C6 (as claimed): the carry buffer holds no '.', '?' or '!', the characters
\* that end a sentence.
C6_NoSentenceEnd ==
    \A i \in DOMAIN carry : carry[i] \notin { ".", "?", "!" }

\* C6 (amended): the carry buffer holds no '.' and no '?', the characters
\* that end a completed chunk; it may hold a '!'.
C6_NoChunkTerminator ==
    \A i \in DOMAIN carry : carry[i] \notin { ".", "?" }

\* a frame ending in '?' followed by more text was processed
C6_Witness ==
    /\ branch = "processed"
    /\ carry # << >>
    /\ \E i \in DOMAIN last_text : last_text[i] = "?"

\* C7: an empty or whitespace-only frame emits nothing and leaves the carry
\* buffer, the seen-set, the remembered previous frame and the collected
\* words unchanged.
C7_BlankFrameIgnored ==
    [][ (FrameRead /\ WhitespaceOnly(Last(frames'))) =>
            /\ new_sentences' = << >>
            /\ UNCHANGED << carry, seen_sentences, last_text, all_words,
                            seen_words, printed, session_file >> ]_vars

\* a non-empty whitespace-only frame arrived while text was being carried
C7_Witness ==
    /\ branch = "blank"
    /\ Last(frames) # << >>
    /\ carry # << >>
    /\ last_text # << >>

\* C8: a frame identical to the previously processed frame emits nothing and
\* leaves the carry buffer, the seen-set and the collected words unchanged.
C8_UnchangedFrameIgnored ==
    [][ (FrameRead /\ Last(frames') = last_text) =>
            /\ new_sentences' = << >>
            /\ UNCHANGED << carry, seen_sentences, all_words, seen_words,
                            printed, session_file >> ]_vars

\* the frame that was repeated had left text in the carry buffer and had
\* emitted a sentence
C8_Witness ==
    /\ branch = "unchanged"
    /\ carry # << >>
    /\ seen_sentences # {}
    /\ all_words # << >>

----------------------------------------------------------------------------
(* Properties of calculate_similarity *)

\* the words of a text: its maximal runs of non-whitespace characters
Words(t) ==
    { SubSeq(t, p[1], p[2]) :
        p \in { q \in (DOMAIN t) \X (DOMAIN t) :
                  /\ q[1] <= q[2]
                  /\ \A k \in q[1]..q[2] : ~ IsSpace(t[k])
                  /\ (q[1] = 1 \/ IsSpace(t[q[1] - 1]))
                  /\ (q[2] = Len(t) \/ IsSpace(t[q[2] + 1])) } }

\* C10: calculate_similarity is symmetric, returns 1.0 when both texts have
\* the same non-empty word set, and 0.0 when either text has no words.
C10_Similarity ==
    sim_pc = "done" =>
        /\ RatioEq(similarity, calculate_similarity(text2, text1))
        /\ (Words(text1) = Words(text2) /\ Words(text1) # {})
              => similarity.num = similarity.den
        /\ (Words(text1) = {} \/ Words(text2) = {}) => similarity.num = 0

\* two different texts with the same two words were compared
C10_Witness ==
    /\ sim_pc = "done"
    /\ text1 # text2
    /\ Words(text1) = Words(text2)
    /\ Cardinality(Words(text1)) = 2

----------------------------------------------------------------------------
(* Properties of remove_duplicates *)

\* the stripped non-empty lines of a text, in order
ContentLines(text) == StripNonEmpty(SplitLines(text, 1, << >>))

\* the positions of the speaker lines among the lines ls
SpeakerAt(ls) == { k \in DOMAIN ls : is_speaker_line(ls[k]) }

\* the last line of the block that starts at speaker line k
BlockEnd(ls, k) ==
    LET later == { j \in SpeakerAt(ls) : j > k }
    IN  IF later = {} THEN Len(ls)
        ELSE (CHOOSE j \in later : \A m \in later : j <= m) - 1

\* the text of the block that starts at speaker line k
BlockText(ls, k) == JoinLines(SubSeq(ls, k, BlockEnd(ls, k)))

\* the texts of the speaker blocks of a text
SpeakerBlocks(text) ==
    LET ls == ContentLines(text)
    IN  { BlockText(ls, k) : k \in SpeakerAt(ls) }

\* the lines before the first speaker line, as one text
Preamble(ls) ==
    LET first == IF SpeakerAt(ls) = {} THEN Len(ls) + 1
                 ELSE CHOOSE j \in SpeakerAt(ls) : \A m \in SpeakerAt(ls) : j <= m
    IN  JoinLines(SubSeq(ls, 1, first - 1))

\* identical text, or word-set similarity of the normalized texts above 0.70
Duplicates(a, b) ==
    \/ a = b
    \/ LET sim == calculate_similarity(normalize_text(a), normalize_text(b))
       IN  10 * sim.num > 7 * sim.den

\* every block text that was retained before the block at speaker line k of
\* the first call's input is among these: the remembered blocks, the earlier
\* blocks of the input and its preamble
EarlierBlocks(ls, k) ==
    seen_blocks \cup { BlockText(ls, j) : j \in { m \in SpeakerAt(ls) : m < k } }
                \cup { Preamble(ls) }

\* C11: in the first call of a run, every line of every speaker block of the
\* input that has no identical and no similar earlier block is in the output,
\* the block after a dropped duplicate included.
C11_UniqueBlocksKept ==
    rd_calls = 1 =>
        LET ls == ContentLines(rd_text)
            out == Range(ContentLines(rd_result))
        IN  \A k \in SpeakerAt(ls) :
                (\A e \in EarlierBlocks(ls, k) : ~ Duplicates(e, BlockText(ls, k)))
                    => \A m \in k..BlockEnd(ls, k) : ls[m] \in out

\* C12: in a call started with an empty seen-set, no retained speaker block
\* equals or resembles (similarity above 0.70) an earlier retained speaker
\* block, and an input block that neither equals nor resembles any earlier
\* retained block is retained as a block of the output.
C12_RetainedIffNew ==
    rd_calls = 1 =>
        LET ls == ContentLines(rd_text)
            out == ContentLines(rd_result)
        IN  /\ \A j, k \in SpeakerAt(out) :
                  j < k => ~ Duplicates(BlockText(out, j), BlockText(out, k))
            /\ \A k \in SpeakerAt(ls) :
                  (\A e \in EarlierBlocks(ls, k) :
                        ~ Duplicates(e, BlockText(ls, k)))
                      => BlockText(ls, k) \in SpeakerBlocks(rd_result)

\* a call has returned in this step
Returned == rd_calls' = rd_calls + 1

\* C13: every speaker block a call retains is in the seen-set when the call
\* returns, and no speaker block retained by a call equals or resembles a
\* speaker block retained by the call before it.
C13_RetainedBlocksRemembered ==
    [][ Returned =>
            /\ SpeakerBlocks(rd_result') \subseteq seen_blocks'
            /\ \A b \in SpeakerBlocks(rd_result) :
                  \A c \in SpeakerBlocks(rd_result') : ~ Duplicates(b, c) ]_vars

RECURSIVE IsSubsequence(_, _)
IsSubsequence(a, b) ==
    IF a = << >> THEN TRUE
    ELSE IF b = << >> THEN FALSE
    ELSE IF Head(a) = Head(b) THEN IsSubsequence(Tail(a), Tail(b))
    ELSE IsSubsequence(a, Tail(b))

\* the lines of a returned text: none for the empty text
LinesOf(text) ==
    IF text = << >> THEN << >> ELSE SplitLines(text, 1, << >>)

\* the speaker lines among ls, in order
SpeakerLines(ls) == SelectSeq(ls, LAMBDA l : is_speaker_line(l))

\* C14: the lines of the output of remove_duplicates are a subsequence of the
\* stripped non-empty lines of its input, so the retained blocks and their
\* speaker lines come in the order of the input.
C14_OrderPreserved ==
    rd_calls >= 1 =>
        /\ IsSubsequence(LinesOf(rd_result), ContentLines(rd_text))
        /\ IsSubsequence(SpeakerLines(LinesOf(rd_result)),
                         SpeakerLines(ContentLines(rd_text)))

\* a file with an empty line and a padded line lost a block and kept two
C14_Witness ==
    /\ rd_calls = 1
    /\ \E i \in DOMAIN SplitLines(rd_text, 1, << >>) :
          SplitLines(rd_text, 1, << >>)[i] = << >>
    /\ \E i \in DOMAIN SplitLines(rd_text, 1, << >>) :
          LET l == SplitLines(rd_text, 1, << >>)[i]
          IN  l # << >> /\ Strip(l) # l
    /\ Len(LinesOf(rd_result)) < Len(ContentLines(rd_text))
    /\ Cardinality(SpeakerAt(LinesOf(rd_result))) >= 2
    /\ \E i \in DOMAIN LinesOf(rd_result) : ~ is_speaker_line(LinesOf(rd_result)[i])

\* the text without its trailing periods and commas
WithoutTrailingPunct(t) ==
    LET core == { i \in DOMAIN t : t[i] \notin { ".", "," } }
    IN  IF core = {} THEN << >>
        ELSE SubSeq(t, 1, CHOOSE i \in core : \A j \in core : j <= i)

\* the text with case, whitespace runs and trailing periods and commas
\* folded away
Folded(t) == Lower(Strip(CollapseSpaces(WithoutTrailingPunct(t), 1)))

\* two different texts that differ in nothing but letter case, whitespace
\* runs and trailing periods or commas
DifferOnlyInForm(a, b) == a # b /\ Folded(a) = Folded(b)

----------------------------------------------------------------------------
(* Properties of clean_incomplete_sentences *)

\* the line ends in one of . ! ? , : ;
EndsInPunct(l) == l # << >> /\ Last(l) \in { ".", "!", "?", ",", ":", ";" }

\* where the last whitespace-separated token of a stripped line begins
LastTokenStart(l) ==
    CHOOSE i \in DOMAIN l :
        /\ \A k \in i..Len(l) : ~ IsSpace(l[k])
        /\ i = 1 \/ IsSpace(l[i - 1])

\* the line without its last token: what is left of it, its tokens one space
\* apart
WithoutLastToken(l) ==
    Strip(CollapseSpaces(SubSeq(l, 1, LastTokenStart(l) - 1), 1))

\* what the claim says a stripped non-empty line becomes
Claimed(l) ==
    IF is_speaker_line(l) THEN l
    ELSE IF ~ EndsInPunct(l) /\ Len(l) - LastTokenStart(l) + 1 <= 3
         THEN LET rest == WithoutLastToken(l)
              IN  IF rest # << >> /\ ~ EndsInPunct(rest)
                  THEN rest \o << "." >>
                  ELSE rest
         ELSE l

RECURSIVE ClaimedLines(_)
ClaimedLines(ls) ==
    IF ls = << >> THEN << >>
    ELSE << Claimed(Head(ls)) >> \o ClaimedLines(Tail(ls))

\* a line shorter than 10 characters that is one of the filler words
DroppedAsFiller(l) == Len(l) < 10 /\ IsFiller(l)

\* C16: a non-speaker line that ends in none of . ! ? , : ; and whose last
\* token has at most 3 characters loses that token (the remaining tokens
\* joined by single spaces) and gets a '.' appended when what is left is
\* non-empty and ends in none of those characters; speaker lines, lines that
\* end in such punctuation and lines with a longer last token pass through
\* stripped and otherwise unchanged; lines left empty or dropped as filler
\* are the only ones missing from the output.
C16_ShortLastTokenRemoved ==
    cl_state = "done" =>
        LinesOf(cl_result) =
            SelectSeq(ClaimedLines(ContentLines(cl_text)),
                      LAMBDA l : l # << >> /\ ~ DroppedAsFiller(l))

\* a line of several tokens without final punctuation lost its short last
\* token and was closed with a period
C16_Witness ==
    /\ cl_state = "done"
    /\ Len(ContentLines(cl_text)) = 1
    /\ LET l == ContentLines(cl_text)[1]
       IN  /\ ~ is_speaker_line(l)
           /\ ~ EndsInPunct(l)
           /\ Len(l) - LastTokenStart(l) + 1 = 3
           /\ cl_result = WithoutLastToken(l) \o << "." >>
           /\ Len(cl_result) >= 2

----------------------------------------------------------------------------
(* Properties of the resolvers *)

YieldedNothing(e) == ~ Truthy(e.result)

\* the stages of translate_words, in order
TwStages == << "db", "deepl", "prompt" >>

\* the text before the first "|"
FirstAlternative(t) ==
    LET bars == { i \in DOMAIN t : t[i] = "|" }
        stop == IF bars = {} THEN Len(t) + 1
                ELSE CHOOSE i \in bars : \A j \in bars : i <= j
    IN  SubSeq(t, 1, stop - 1)

\* the store returned a text whose first alternative is not blank
UsableFirst(res) ==
    /\ res.type = "str"
    /\ \E i \in DOMAIN FirstAlternative(res.val) :
           ~ IsSpace(FirstAlternative(res.val)[i])

\* C17: a later stage of the fallback chain is consulted only if all earlier
\* stages yielded nothing.  In translate_words the stages are consulted in
\* the order store, remote service, prompt, each only when every stage
\* before it returned no translation; in get_first_translation the flat
\* dictionary is read only after the store, and only when the store
\* returned no usable first alternative.
C17_LaterStageOnlyAfterNothing ==
    /\ prog = "translate_words" =>
         \A k \in DOMAIN tw_consulted :
             /\ k <= Len(TwStages)
             /\ tw_consulted[k].stage = TwStages[k]
             /\ \A j \in 1..(k - 1) : YieldedNothing(tw_consulted[j])
    /\ prog = "get_first_translation" =>
         \A k \in DOMAIN gf_consulted :
             gf_consulted[k].stage = "dict" =>
                 /\ k = 2
                 /\ gf_consulted[1].stage = "store"
                 /\ ~ UsableFirst(gf_consulted[1].result)

\* the store found nothing, the remote service found nothing, and the
\* translation typed at the prompt went into the table
C17_Witness ==
    /\ prog = "translate_words"
    /\ Len(tw_consulted) = 3
    /\ YieldedNothing(tw_consulted[1])
    /\ YieldedNothing(tw_consulted[2])
    /\ tw_consulted[3].result = PyStr(<< "m" >>)
    /\ tw_i > 0
    /\ words_data[tw_i].translation = << "m" >>

\* C18: when the store cannot be opened or queried, or the remote service is
\* unreachable, the stage counts as having produced no result and the next
\* stage is consulted; no exception leaves get_first_translation,
\* translate_sentence or translate_words.
C18_FailuresStayInside ==
    /\ rs_state # "raised"
    /\ \A k \in DOMAIN tw_consulted :
           tw_consulted[k].failed =>
               /\ YieldedNothing(tw_consulted[k])
               /\ k < Len(tw_consulted)
    /\ \A k \in DOMAIN gf_consulted :
           (gf_consulted[k].failed /\ gf_consulted[k].stage = "store") =>
               /\ YieldedNothing(gf_consulted[k])
               /\ k < Len(gf_consulted)

\* str.isupper() said otherwise: upper-casing leaves src alone and
\* lower-casing does not
FullyUpper(src) == src = Upper(src) /\ src # Lower(src)

Capitalised(dst) ==
    [ i \in DOMAIN dst |-> IF i = 1 THEN UpperChar(dst[i]) ELSE dst[i] ]

\* the positions where a run of word characters or of other characters
\* starts, and the position after the sentence
Boundaries(t) ==
    { i \in 1..(Len(t) + 1) :
        \/ i = 1
        \/ i = Len(t) + 1
        \/ IsWordChar(t[i - 1]) # IsWordChar(t[i]) }

\* the maximal runs of the sentence, in order
Runs(t) ==
    LET b == Boundaries(t)
        starts == { i \in b : i <= Len(t) }
        nth(k) == CHOOSE i \in starts :
                      Cardinality({ j \in starts : j < i }) = k - 1
        after(i) == CHOOSE j \in b : j > i /\ \A m \in b : m > i => j <= m
    IN  [ k \in 1..Cardinality(starts) |->
              SubSeq(t, nth(k), after(nth(k)) - 1) ]

IsToken(run) == Len(run) >= 2 /\ IsWordChar(run[1])

Resolved(st, d, run) ==
    IsToken(run) /\ Truthy(get_first_translation(st, d, run).value)

\* C19: preserve_case(src, dst) returns dst uppercased when src is fully
\* uppercase, dst with only its first character uppercased when src merely
\* starts with an uppercase letter, and dst unchanged otherwise, an empty
\* dst included; translate_sentence returns the runs of the sentence in
\* order, every non-word character and every unresolved token as it was,
\* and only the resolved tokens replaced by their case-adapted translation.
C19_CasePreserved ==
    /\ (prog = "preserve_case" /\ rs_state = "done") =>
         pc_result =
             IF pc_dst = << >> THEN pc_dst
             ELSE IF FullyUpper(pc_src) THEN Upper(pc_dst)
             ELSE IF IsUpper(pc_src[1]) THEN Capitalised(pc_dst)
             ELSE pc_dst
    /\ (prog = "translate_sentence" /\ rs_state = "done") =>
         LET runs == Runs(ts_sentence)
         IN  ts_result =
                 Concat([ k \in DOMAIN runs |->
                     IF Resolved(store, dict_file, runs[k])
                     THEN preserve_case(runs[k],
                              get_first_translation(store, dict_file,
                                                    runs[k]).value.val)
                     ELSE runs[k] ])

\* a sentence with a resolved token, punctuation, a one-letter word and a
\* token the store has no usable alternative for
C19_Witness ==
    /\ prog = "translate_sentence"
    /\ rs_state = "done"
    /\ store = Store1
    /\ dict_file = NoDict
    /\ ts_sentence = << "A", "B", ",", " ", "a", " ", "b", "a", "." >>
    /\ ts_result = << "X", " ", "Y", ",", " ", "a", " ", "b", "a", "." >>

HasWord(table, w) ==
    \E k \in DOMAIN table : StripQuotes(table[k].word) = w

\* C20: in translate_words, when the store and the remote service yield
\* nothing and the manual entry is empty, the word is skipped: it is
\* appended to the whitelist (when that write succeeded) and removed from
\* the working table, and the table saved at the end of the run does not
\* contain it.
C20_SkippedWordLeavesTable ==
    prog = "translate_words" =>
        /\ (/\ Len(tw_consulted) = 3
            /\ \A k \in DOMAIN tw_consulted : YieldedNothing(tw_consulted[k]))
           => \E k \in DOMAIN tw_skips : tw_skips[k].word = tw_word
        /\ \A k \in DOMAIN tw_skips :
               /\ tw_skips[k].appended =>
                      \E j \in DOMAIN whitelist_file :
                          whitelist_file[j] = tw_skips[k].word
               /\ ~ HasWord(words_data, tw_skips[k].word)
               /\ (rs_state = "done" /\ csv_saved) =>
                      ~ HasWord(csv_file, tw_skips[k].word)

\* a run that skipped the quoted word and saved a table that still has a
\* row
C20_Witness ==
    /\ prog = "translate_words"
    /\ rs_state = "done"
    /\ csv_saved
    /\ csv_file # << >>
    /\ \E k \in DOMAIN tw_skips :
           /\ tw_skips[k].word = << "w" >>
           /\ tw_skips[k].appended
    /\ whitelist_file = << << "w" >> >>

----------------------------------------------------------------------------
(* Properties of analyze_word_frequency *)

\* the rows of a table file, each line read on its own: lines without a
\* second field or with an unparsable frequency are no rows
RowOf(line) ==
    LET parts == SplitMax2(Strip(line))
    IN  [ word |-> Unquote(parts[2]),
          frequency |-> ParseInt(parts[1]).val,
          translation |-> IF Len(parts) > 2 THEN Unquote(parts[3])
                          ELSE << >> ]

IsRow(line) ==
    /\ Len(SplitMax2(Strip(line))) >= 2
    /\ ParseInt(SplitMax2(Strip(line))[1]).ok

RowsOf(lines) ==
    { RowOf(lines[k]) : k \in { i \in DOMAIN lines : IsRow(lines[i]) } }

WordsOf(lines) == { r.word : r \in RowsOf(lines) }

\* the form in which a word is counted and whitelisted
Normal(word) == clean_word(Lower(word))

\* the words on the lines of the whitelist file
Whitelisted(wl) ==
    { Normal(wl.lines[k]) :
        k \in { i \in DOMAIN wl.lines :
                  /\ Strip(wl.lines[i]) # << >>
                  /\ Strip(wl.lines[i])[1] # "#" } } \ { << >> }

\* how often a word is newly observed in a text
Observed(w, content, wl) ==
    LET toks == SplitWs(content, 1, << >>)
    IN  IF Len(w) <= MinWordLen \/ w \in Whitelisted(wl) THEN 0
        ELSE Cardinality({ i \in DOMAIN toks : Normal(toks[i]) = w })

ObservedWords(content) ==
    { Normal(w) : w \in Range(SplitWs(content, 1, << >>)) }

\* C21: analyze_word_frequency merges additively.  Across every run, a
\* newly observed word that is in the table gets frequency old + new and
\* keeps its translation, a newly observed word that is not in the table is
\* inserted with its count and an empty translation, and every row of a
\* word that is not newly observed is in the rewritten table unchanged.
C21_MergeIsAdditive ==
    [][ LET content == wf_texts'[Len(wf_texts')]
            before == RowsOf(wf_table)
            after == RowsOf(wf_table')
        IN  /\ \A r \in before :
                   [ r EXCEPT !.frequency =
                         @ + Observed(r.word, content, wf_whitelist) ]
                       \in after
            /\ \A w \in ObservedWords(content) \ WordsOf(wf_table) :
                   Observed(w, content, wf_whitelist) > 0 =>
                       [ word |-> w,
                         frequency |-> Observed(w, content, wf_whitelist),
                         translation |-> << >> ] \in after
      ]_vars

\* C22: a row of the existing table that fails to parse is skipped alone:
\* the word of every row that does parse, before or after the bad row, is
\* in the rewritten table.
C22_OnlyBadRowSkipped ==
    [][ \A w \in WordsOf(wf_table) : w \in WordsOf(wf_table') ]_vars

\* C23: the rows written by analyze_word_frequency are in descending order
\* of frequency, and rows of equal frequency in ascending order of word.
C23_SortedByFrequencyThenWord ==
    wf_texts # << >> =>
        \A i, j \in DOMAIN wf_table :
            i < j =>
                LET a == RowOf(wf_table[i])
                    b == RowOf(wf_table[j])
                IN  \/ a.frequency > b.frequency
                    \/ a.frequency = b.frequency /\ WordLess(a.word, b.word)

\* C24: merging is commutative and associative.  After two runs the table
\* holds the same records as after the same two texts merged into the
\* same starting table in the other order, and as after the two texts
\* merged as one text.
C24_MergeOrderIrrelevant ==
    Len(wf_texts) = 2 =>
        LET once(table, content) ==
                analyze_word_frequency(content, table, wf_whitelist).lines
            swapped == once(once(wf_table0, wf_texts[2]), wf_texts[1])
            joined == once(wf_table0,
                           wf_texts[1] \o << " " >> \o wf_texts[2])
        IN  /\ RowsOf(wf_table) = RowsOf(swapped)
            /\ RowsOf(wf_table) = RowsOf(joined)

\* C25: reading back the table that analyze_word_frequency wrote, with its
\* own reader, gives the same (word, frequency, translation) triples as
\* the table it wrote from, also when a word or a translation contains
\* ',' or '"'.
C25_RoundTrip ==
    wf_texts # << >> =>
        Range(LoadRows(wf_table, 1, << >>)) = Range(wf_merged)

C27_NoWhitelistedWordWritten ==
    wf_texts # << >> =>
        \A w \in WordsOf(wf_table) : Normal(w) \notin Whitelisted(wf_whitelist)

----------------------------------------------------------------------------
(* Properties of the vocabulary trainer *)

\* C28: after any correctly answered word, the persisted words table no
\* longer holds that word and the persisted whitelist holds it (in lower
\* case, as the whitelist keeps its words), also when the word was the
\* last one of the table.
C28_LearnedWordMovesToWhitelist ==
    \A k \in DOMAIN tr_learned :
        /\ \A i \in DOMAIN tr_words_file :
               tr_words_file[i].word # tr_learned[k]
        /\ \E i \in DOMAIN tr_whitelist_file :
               tr_whitelist_file[i] = Lower(tr_learned[k])

----------------------------------------------------------------------------
(* Properties of the end of a session *)

\* how often a word occurs in the sentences of a transcript
RECURSIVE TimesIn(_, _)
TimesIn(w, sentences) ==
    IF sentences = << >> THEN 0
    ELSE LET ws == extract_words_from_text(Head(sentences))
         IN  Cardinality({ i \in DOMAIN ws : ws[i] = w })
                 + TimesIn(w, Tail(sentences))

\* the words of the transcript and of the carry buffer
WordsSeen ==
    UNION { Range(extract_words_from_text(session_file[i])) :
                i \in DOMAIN session_file }
        \cup Range(extract_words_from_text(carry))

\* the rows of the written table that count a word
RowsFor(w) == { i \in DOMAIN output_csv : output_csv[i].word = w }

\* the table counts every word as often as the transcript holds it, once per
\* word, and counts nothing else
TableFromTranscript ==
    /\ \A w \in WordsSeen :
           IF TimesIn(w, session_file) = 0 THEN RowsFor(w) = {}
           ELSE \E i \in DOMAIN output_csv :
                    /\ RowsFor(w) = { i }
                    /\ output_csv[i].frequency = TimesIn(w, session_file)
    /\ \A i \in DOMAIN output_csv : output_csv[i].word \in WordsSeen

\* the step in which the interrupt ends the loop
StopStep ==
    (phase = "running" /\ phase' = "stopped") =>
        /\ csv_writes' = 1
        /\ frames' = frames =>
               (session_file' = session_file /\ carry' = carry)
        /\ \E k \in 0 .. Len(new_sentences') :
               session_file' \in { session_file,
                                   session_file \o SubSeq(new_sentences', 1, k) }

\* once the loop was left nothing is read, appended or written again
NothingAfterStop ==
    phase # "running" =>
        UNCHANGED << frames, last_text, carry, session_file, seen_sentences,
                     all_words, output_csv, csv_writes, phase >>

\* C29: when the polling loop is interrupted no further frame is ingested,
\* the text left in the carry buffer reaches neither the session transcript
\* nor the word counts, and the table of the run is built from the sentences
\* of the transcript and written exactly once.
C29_InterruptEndsRun ==
    /\ [](phase = "stopped" => (csv_writes = 1 /\ TableFromTranscript))
    /\ [][StopStep /\ NothingAfterStop]_vars

\* "Hello wor" and "world. How are" were read before the interrupt: the
\* table counts the words of "Hello wor world." and "How are" is dropped
C29_Witness ==
    /\ phase = "stopped"
    /\ branch = "processed"
    /\ frames = << HelloWor, WorldHowAre >>
    /\ session_file = << HelloWorWorld >>
    /\ carry = HowAre
    /\ csv_writes = 1
    /\ Len(output_csv) = 3

\* a session ended as the claim says: by the interrupt, with its table
SessionEndedWell ==
    phase # "running" =>
        /\ phase = "stopped"
        /\ csv_writes = 1
        /\ TableFromTranscript

\* C30: no failure of one item (a frame whose OCR fails, a translation
\* lookup that fails, an append to the transcript that fails) ends the
\* session, and whenever the session ends the table of the run is written
\* with everything accumulated until then.
C30_NoItemFailureAborts == SessionEndedWell

----------------------------------------------------------------------------
(* Idempotence of clean_incomplete_sentences *)

\* C36: clean_incomplete_sentences applied to its own output returns that
\* output unchanged, for every input text.
C36_CleanIsIdempotent ==
    cl_state = "done" => clean_incomplete_sentences(cl_result) = cl_result

\* a line that lost its short last word and was closed with a period
C36_Witness ==
    /\ cl_state = "done"
    /\ cl_text = << "G","u","t","e","n"," "," ","T","a","g","\t","a","b" >>
    /\ cl_result = << "G","u","t","e","n"," ","T","a","g","." >>

----------------------------------------------------------------------------
(* Independence of remove_duplicates from the files processed before *)

\* C35: the output of remove_duplicates for a session text is the output the
\* same text yields in a fresh run, whatever was processed earlier in the
\* run.
C35_ResultDependsOnTextOnly ==
    rd_calls > 0 => rd_result = remove_duplicates(rd_text, {}).result

----------------------------------------------------------------------------
(* A run of translate_words from start to end *)

Translating == prog = "translate_words"

\* the rows the pass has gone by all have a translation
PassedRowsTranslated ==
    (Translating /\ rs_state \in { "loop", "done" }) =>
        /\ tw_i <= Len(words_data)
        /\ \A k \in 1 .. tw_i : ~ LacksTranslation(words_data[k])

\* until the final save the table on disk is the one the run started from,
\* and its rows that had a translation are in the working table as they were
TranslatedRowsKept ==
    (Translating /\ rs_state = "loop") =>
        \A k \in DOMAIN csv_file :
            ~ LacksTranslation(csv_file[k]) =>
                \E j \in DOMAIN words_data : words_data[j] = csv_file[k]

\* the table the final save wrote holds no row without a translation
SavedRowsTranslated ==
    (Translating /\ rs_state = "done" /\ csv_saved) =>
        \A k \in DOMAIN csv_file : csv_file[k].translation # << >>

\* a step of the pass never returns to a row it went by, changes no row it
\* went by and no row that has a translation, and either moves on or removes
\* the row it is at; the final save writes the rows that had a translation
\* as they were
PassStep ==
    (Translating /\ rs_state = "loop") =>
        /\ tw_i' >= tw_i
        /\ SubSeq(words_data', 1, tw_i) = SubSeq(words_data, 1, tw_i)
        /\ \A k \in DOMAIN words_data :
               ~ LacksTranslation(words_data[k]) =>
                   \E j \in DOMAIN words_data' : words_data'[j] = words_data[k]
        /\ rs_state' = "loop" =>
               Len(words_data') - tw_i' = Len(words_data) - tw_i - 1
        /\ rs_state' = "done" =>
               \A k \in DOMAIN csv_file :
                   ~ LacksTranslation(csv_file[k]) =>
                       \E j \in DOMAIN csv_file' :
                           csv_file'[j] = csv_file[k] \/ ~ csv_saved'

\* C38: when every lookup and prompt returns, translate_words terminates,
\* goes once over each row that lacks a translation, leaves every row that
\* had a translation as it was, and the table it finally saves holds only
\* rows with a non-empty translation.
C38_TranslateWordsCompletes ==
    /\ <>(rs_state \in { "done", "raised", "interrupted" })
    /\ [](PassedRowsTranslated /\ TranslatedRowsKept /\ SavedRowsTranslated)
    /\ [][PassStep]_vars

\* a table with a translated row and a row that lacked a translation was
\* saved with both rows translated
C38_Witness ==
    /\ Translating
    /\ rs_state = "done"
    /\ csv_saved
    /\ Len(csv_file) = 2
    /\ csv_file[1].translation = << "t" >>
    /\ csv_file[2].translation = DeeplText
    /\ tw_skips = << >>

----------------------------------------------------------------------------
(* translate_words interrupted by SIGINT *)

\* the words appended to the whitelist during the run
Whitelisted_InRun == Range(whitelist_file)

\* C34: with the SIGINT handler able to run between any two steps of the
\* loop, every table written to disk, by the handler or by the final save,
\* holds no word that was appended to the whitelist during the run and
\* holds every translation assigned so far.
C34_SavedTableConsistent ==
    (prog = "translate_words" /\ csv_saved) =>
        /\ \A w \in Whitelisted_InRun : ~ HasWord(csv_file, w)
        /\ csv_file = words_data

----------------------------------------------------------------------------
(* Properties of chunk_text *)

\* C40: for every text and every max_chars >= 1, with or without
\* prefer_word_boundary, chunk_text terminates, every chunk it yields is
\* non-empty and at most max_chars long, and the chunks concatenated in
\* order are the text.
C40_ChunksPartitionText ==
    /\ <>(ck_state = "done")
    /\ [](\A k \in DOMAIN ck_chunks :
              /\ ck_chunks[k] # << >>
              /\ Len(ck_chunks[k]) <= ck_max)
    /\ [](ck_state = "done" => Concat(ck_chunks) = ck_text)

\* "aa aa" cut at the space, which stays at the end of the first chunk
C40_Witness ==
    /\ ck_state = "done"
    /\ ck_prefer
    /\ ck_max = 4
    /\ ck_chunks = << << "a", "a", " " >>, << "a", "a" >> >>

----------------------------------------------------------------------------
(* Properties of the Twitch monitor *)

\* the poll before poll k that last told which channels were live, 0 when
\* there is none; polls that answered another status tell nothing
RECURSIVE LastReport(_)
LastReport(k) ==
    IF k <= 1 THEN 0
    ELSE IF tm_log[k - 1].kind = "not200" THEN LastReport(k - 1)
    ELSE k - 1

\* the channels seen live by the last report before poll k
LiveBefore(k) ==
    IF LastReport(k) = 0 THEN {} ELSE tm_log[LastReport(k)].live

\* the poll before poll k completed, or there was none
CleanBefore(k) ==
    LastReport(k) = 0 \/ tm_log[LastReport(k)].kind = "ok"

\* C39: after every successful poll the opened set is the set of channels
\* reported live, so a successful poll opens, once each, the pages of exactly
\* the channels that are live now and were not live at the successful poll
\* before it; a poll that answers a status other than 200 opens no page and
\* leaves the opened set as it was.
C39_OpenedFollowsLive ==
    /\ [](tm_log # << >> /\ Last(tm_log).kind = "ok"
              => tm_opened = Last(tm_log).live)
    /\ [](\A k \in DOMAIN tm_log :
              /\ NoDuplicates(tm_log[k].pages)
              /\ (tm_log[k].kind = "ok" /\ CleanBefore(k)) =>
                     Range(tm_log[k].pages) = tm_log[k].live \ LiveBefore(k)
              /\ tm_log[k].kind = "not200" => tm_log[k].pages = << >>)
    /\ [][(tm_log' # tm_log /\ Last(tm_log').kind = "not200")
              => tm_opened' = tm_opened]_vars

\* x was live, then y alone, then both: the page of x was opened a second
\* time after the poll that saw it offline
C39_Witness ==
    /\ Len(tm_log) = 3
    /\ tm_log[1].kind = "ok" /\ tm_log[1].pages = << "x" >>
    /\ tm_log[2].kind = "ok" /\ tm_log[2].live = { "y" }
    /\ tm_log[3].kind = "ok" /\ tm_log[3].pages = << "x" >>
    /\ tm_opened = { "x", "y" }

----------------------------------------------------------------------------
(* Properties of the screen recorder *)

\* the selected region has no positive width or no positive height
InvalidRegion ==
    /\ rc_top_left # << >>
    /\ rc_bottom_right # << >>
    /\ \/ rc_bottom_right[1] - rc_top_left[1] <= 0
       \/ rc_bottom_right[2] - rc_top_left[2] <= 0

\* C31: when the selected capture region has non-positive width or height
\* the capture tool aborts before the polling loop: it makes no pass of the
\* loop with such a region.
C31_InvalidRegionAborts == InvalidRegion => rc_passes = 0

----------------------------------------------------------------------------
(* Properties of a run of merge_words *)

\* the record of a word in a table of words.csv
InTable(table, word) == \E k \in DOMAIN table : Strip(table[k].word) = word

RecordOf(table, word) ==
    table[CHOOSE k \in DOMAIN table : Strip(table[k].word) = word]

\* C32: after a run of merge_words.main with its default arguments every
\* word that words.csv held before the run is still in it, its frequency
\* is at least what it was and each of its translations is retained
C32_TableOnlyGrows ==
    mw_state \in { "written", "done" } =>
        \A k \in DOMAIN mw_table0 :
            LET word == Strip(mw_table0[k].word)
            IN  /\ InTable(mw_table, word)
                /\ parse_int(RecordOf(mw_table, word).frequency)
                       >= parse_int(mw_table0[k].frequency)
                /\ Parts(mw_table0[k].translation)
                       \subseteq Parts(RecordOf(mw_table, word).translation)

\* C37: an input file is deleted only if its rows were merged into the
\* written output; a file that was passed over stays on disk
C37_OnlyMergedFilesDeleted ==
    mw_state = "done" =>
        \A i \in DOMAIN mw_files : i \notin mw_present => i \in mw_merged

----------------------------------------------------------------------------
(* Interrupts of ocr_to_vocab.main before the loop *)

\* C33: an interrupt delivered at any point after the arguments were
\* parsed, the prompt for the region corners included, is handled by the
\* branch of line 397, and that branch completes: it never raises an
\* error of its own.
C33_InterruptAlwaysHandled == phase # "crashed"

====
